---- MODULE Spec2Model ----
(***************************************************************************)
(* Conversation state machine of orcamento-bot: the per-thread contexts    *)
(* kept by StateManager, the handlers of EventHandlers that create, edit   *)
(* and persist them, the classification and transfer services they call,   *)
(* and the ledger table written by DatabaseManager.                        *)
(*                                                                         *)
(* Money is counted in whole cents, dates in whole days.  Every answer of  *)
(* the language model and every outcome of a ledger call is an input that  *)
(* the handler's action draws from a small set.  A handler is one action:  *)
(* replies of one thread are processed one after the other.                *)
(***************************************************************************)
EXTENDS Integers, Sequences, FiniteSets, TLC

\* ------------------------------------------------------------------ bounds
MaxThreads == 1      \* threads the chat transport creates in one run
MaxRows == 3         \* ledger rows written in one run
MaxMessages == 3     \* messages handled in one run
MaxItems == 4        \* items of a list handed to redistribute_values_for_total
MaxValor == 2        \* largest amount, in cents, of such an item
MaxTarget == 4       \* largest target total, in cents
MaxGroupItems == 3   \* items of a list handed to group_transactions_by_category
MaxTasks == 2        \* thread replies the event loop handles at once
MaxRetries == 5      \* largest max_retries initialize is called with

\* --------------------------------------------------------------- constants
Today == 100                   \* date.today(), as a day number
StaleDays == 30                \* timedelta(days=30)
NONE == "<None>"               \* Python None where a string is expected
MISSING == "<missing>"         \* key absent from a parsed JSON object
Sentinel == "Estabelecimento não identificado"
Null == [null |-> TRUE]        \* Python None where an object is expected

PreexistingAccounts == {"A", "B"}      \* accounts of rows already in transacoes
LedgerCategories == {"Alimentação - Básica", "Casa - Manutenção"}  \* public.orcamento

\* ------------------------------------------------------------- raw values
\* A JSON value handed to float(): a number, or something float() rejects.
Num(v) == [k |-> "num", v |-> v]
BadNum == [k |-> "bad", v |-> 0]
NoNum == [k |-> "missing", v |-> 0]
\* A JSON value handed to strptime: absent/empty, malformed, or YYYY-MM-DD.
NoDate == [k |-> "missing", d |-> 0]
BadDate == [k |-> "bad", d |-> 0]
Date(d) == [k |-> "ok", d |-> d]

Abs(x) == IF x < 0 THEN 0 - x ELSE x

\* round(x, 2) of the float x = n / d cents (d # 0).  A value halfway between
\* two cents has no exact float: the float product lies just above or just
\* below it, and up tells which.
RoundDiv(n, d, up) ==
    LET num == IF d < 0 THEN 0 - n ELSE n
        den == Abs(d)
        q == num \div den
        r == num - q * den
    IN  IF 2 * r < den THEN q
        ELSE IF 2 * r > den THEN q + 1
        ELSE IF up THEN q + 1 ELSE q

RECURSIVE SumValor(_)
SumValor(items) ==
    IF items = <<>> THEN 0 ELSE Head(items).valor + SumValor(Tail(items))

\* ---------------------------------------------------------- formatters.py
\* item.get('categoria', 'a classificar')
CategoryOf(item) == IF item.categoria = MISSING THEN "a classificar" ELSE item.categoria

RECURSIVE FirstSeen(_, _)
FirstSeen(items, acc) ==
    IF items = <<>> THEN acc
    ELSE LET c == CategoryOf(Head(items))
         IN  FirstSeen(Tail(items),
                       IF \E i \in 1..Len(acc) : acc[i] = c
                       THEN acc ELSE Append(acc, c))

\* a group_transactions_by_category that assigns instead of appending
group_transactions_by_category_last_only(items) ==
    LET cats == FirstSeen(items, <<>>)
    IN  [i \in 1..Len(cats) |->
            [categoria |-> cats[i],
             items |-> LET own == SelectSeq(items, LAMBDA it : CategoryOf(it) = cats[i])
                       IN  <<own[Len(own)]>>]]

\* the dict it returns, as the sequence of its entries in insertion order
group_transactions_by_category(items) ==
    LET cats == FirstSeen(items, <<>>)
    IN  [i \in 1..Len(cats) |->
            [categoria |-> cats[i],
             items |-> SelectSeq(items, LAMBDA it : CategoryOf(it) = cats[i])]]

\* f"{x:.2f}" of an amount of c cents: sign, digits before and after the point
TwoDecimals(c) ==
    [negative |-> c < 0, units |-> Abs(c) \div 100, cents |-> Abs(c) % 100]

RECURSIVE SumGroups(_)
SumGroups(grouped) ==
    IF grouped = <<>> THEN 0
    ELSE SumValor(Head(grouped).items) + SumGroups(Tail(grouped))

\* format_grouped_summary: the fixed message for an empty grouping, otherwise
\* the establishment line, one line per category and the grand total
format_grouped_summary(grouped_transactions, estabelecimento) ==
    IF grouped_transactions = <<>>
    THEN [text |-> "Nenhuma transação encontrada."]
    ELSE [text |-> "Resumo por Categoria",
          estabelecimento |-> IF estabelecimento \in {"", NONE} THEN NONE
                              ELSE estabelecimento,
          categorias |->
             [g \in 1..Len(grouped_transactions) |->
                [categoria |-> grouped_transactions[g].categoria,
                 valor_categoria |->
                    TwoDecimals(SumValor(grouped_transactions[g].items)),
                 produtos |->
                    [i \in 1..Len(grouped_transactions[g].items) |->
                        grouped_transactions[g].items[i].descricao]]],
          total_geral |-> TwoDecimals(SumGroups(grouped_transactions))]

\* How the floats of one call fall: the items whose halfway amount rounds up,
\* and whether a difference of one cent compares greater than 0.01.
Roundings(n) ==
    {[ties_up |-> u, cent_exceeds |-> c] : u \in SUBSET (1..n), c \in BOOLEAN}

\* a redistribute_values_for_total without the correction of the last item
redistribute_values_for_total_uncorrected(items, target_total, rounding) ==
    IF items = <<>> THEN items
    ELSE LET current_total == SumValor(items)
         IN  IF current_total = 0 THEN items
             ELSE [i \in 1..Len(items) |->
                     [items[i] EXCEPT !.valor =
                        RoundDiv(items[i].valor * target_total, current_total,
                                 i \in rounding.ties_up)]]

\* a redistribute_values_for_total that scales by 0 when the total is 0
redistribute_values_for_total_zero_factor(items, target_total, rounding) ==
    IF items = <<>> THEN items
    ELSE LET current_total == SumValor(items)
             scaled == [i \in 1..Len(items) |->
                          [items[i] EXCEPT !.valor =
                             IF current_total = 0 THEN 0
                             ELSE RoundDiv(items[i].valor * target_total,
                                           current_total, i \in rounding.ties_up)]]
             actual_total == SumValor(scaled)
             difference == Abs(actual_total - target_total)
             n == Len(scaled)
         IN  IF difference > 1 \/ (difference = 1 /\ rounding.cent_exceeds)
             THEN [scaled EXCEPT ![n].valor =
                       scaled[n].valor + (target_total - actual_total)]
             ELSE scaled

redistribute_values_for_total(items, target_total, rounding) ==
    IF items = <<>> THEN items
    ELSE LET current_total == SumValor(items)
         IN  IF current_total = 0 THEN items
             ELSE LET scaled == [i \in 1..Len(items) |->
                                   [items[i] EXCEPT !.valor =
                                      RoundDiv(items[i].valor * target_total,
                                               current_total, i \in rounding.ties_up)]]
                      actual_total == SumValor(scaled)
                      difference == Abs(actual_total - target_total)
                      n == Len(scaled)
                  IN  IF difference > 1 \/ (difference = 1 /\ rounding.cent_exceeds)
                      THEN [scaled EXCEPT ![n].valor =
                                scaled[n].valor + (target_total - actual_total)]
                      ELSE scaled

\* --------------------------------------------------------- data_models.py
\* date.isoformat() and datetime.fromisoformat(...).date(): a stored date is
\* written as a tagged string and read back by parsing that string.
isoformat(d) == <<"iso", d>>

\* a from_dict whose date parse always fails and falls back on today
fromisoformat_today(s) == Today

fromisoformat(s) == IF Len(s) = 2 /\ s[1] = "iso" THEN s[2] ELSE Today

\* In a dict an amount is a JSON number, Num(v); in a dataclass it is the float
\* that float() made of it.
TransactionItem_to_dict(item) ==
    [descricao |-> item.descricao, valor |-> Num(item.valor),
     categoria |-> item.categoria]

\* from_dict: data.get with the defaults '', 0 and 'a classificar'
TransactionItem_from_dict(raw) ==
    [descricao |-> IF raw.descricao = MISSING THEN "" ELSE raw.descricao,
     valor |-> raw.valor.v,
     categoria |-> IF raw.categoria = MISSING THEN "a classificar" ELSE raw.categoria]

ClassificationData_to_dict(cd) ==
    [estabelecimento |-> cd.estabelecimento,
     data_compra |-> isoformat(cd.data_compra),
     itens |-> [i \in 1..Len(cd.itens) |-> TransactionItem_to_dict(cd.itens[i])],
     available_categories |-> cd.available_categories]

ClassificationData_from_dict(d) ==
    [estabelecimento |-> IF d.estabelecimento = MISSING THEN Sentinel
                         ELSE d.estabelecimento,
     data_compra |-> fromisoformat(d.data_compra),
     itens |-> [i \in 1..Len(d.itens) |-> TransactionItem_from_dict(d.itens[i])],
     available_categories |-> d.available_categories]

TransferData_to_dict(td) ==
    [valor |-> Num(td.valor),
     conta_origem |-> td.conta_origem,
     conta_destino |-> td.conta_destino,
     data_transferencia |-> isoformat(td.data_transferencia),
     descricao |-> td.descricao]

TransferData_from_dict(d) ==
    [valor |-> d.valor.v,
     conta_origem |-> d.conta_origem,
     conta_destino |-> d.conta_destino,
     data_transferencia |-> fromisoformat(d.data_transferencia),
     descricao |-> d.descricao]

\* UserContext(...): the payloads default to None, waiting_for_account to False
UserContext(thread_id, attachment_url, message_content, classification_data, transfer_data) ==
    [user_id |-> "u",
     thread_id |-> thread_id,
     attachment_url |-> attachment_url,
     message_content |-> message_content,
     classification_data |-> classification_data,
     transfer_data |-> transfer_data,
     waiting_for_account |-> FALSE]

\* to_dict writes a payload key only for a payload that is set
UserContext_to_dict(ctx) ==
    [user_id |-> ctx.user_id,
     thread_id |-> ctx.thread_id,
     attachment_url |-> ctx.attachment_url,
     message_content |-> ctx.message_content,
     waiting_for_account |-> ctx.waiting_for_account,
     classification_data |->
        IF ctx.classification_data # Null
        THEN ClassificationData_to_dict(ctx.classification_data) ELSE Null,
     transfer_data |->
        IF ctx.transfer_data # Null
        THEN TransferData_to_dict(ctx.transfer_data) ELSE Null]

UserContext_from_dict(d) ==
    [user_id |-> d.user_id,
     thread_id |-> d.thread_id,
     attachment_url |-> d.attachment_url,
     message_content |-> d.message_content,
     waiting_for_account |-> d.waiting_for_account,
     classification_data |->
        IF d.classification_data # Null
        THEN ClassificationData_from_dict(d.classification_data) ELSE Null,
     transfer_data |->
        IF d.transfer_data # Null
        THEN TransferData_from_dict(d.transfer_data) ELSE Null]

\* ------------------------------------------------------- state_manager.py
\* a save_state that never reaches the file
save_state_not_written(contexts, file, write_ok) == file

\* save_state: the document written for the map (kept when the write fails)
save_state(contexts, file, write_ok) ==
    IF write_ok
    THEN [t \in DOMAIN contexts |-> UserContext_to_dict(contexts[t])]
    ELSE file

load_state(file) == [t \in DOMAIN file |-> UserContext_from_dict(file[t])]

get_context(contexts, thread_id) ==
    IF thread_id \in DOMAIN contexts THEN contexts[thread_id] ELSE Null

has_context(contexts, thread_id) == thread_id \in DOMAIN contexts

set_context(contexts, thread_id, context) ==
    [t \in DOMAIN contexts \cup {thread_id} |->
        IF t = thread_id THEN context ELSE contexts[t]]

\* an update_context that makes the entry it does not find
update_context_upsert(contexts, thread_id, key, value) ==
    IF thread_id \in DOMAIN contexts THEN contexts
    ELSE [t \in DOMAIN contexts \cup {thread_id} |->
            IF t = thread_id
            THEN [user_id |-> "u", thread_id |-> thread_id, attachment_url |-> NONE,
                  message_content |-> "", classification_data |-> Null,
                  transfer_data |-> Null, waiting_for_account |-> value = TRUE]
            ELSE contexts[t]]

\* an update_context that finds no attribute to set
update_context_ignored(contexts, thread_id, key, value) == contexts

\* update_context(thread_id, key=value) for the three keys the handlers use
update_context(contexts, thread_id, key, value) ==
    IF thread_id \in DOMAIN contexts
    THEN [contexts EXCEPT ![thread_id] =
            IF key = "waiting_for_account" THEN [@ EXCEPT !.waiting_for_account = value]
            ELSE IF key = "classification_data" THEN [@ EXCEPT !.classification_data = value]
            ELSE IF key = "transfer_data" THEN [@ EXCEPT !.transfer_data = value]
            ELSE @]
    ELSE contexts

\* a remove_context that empties the map
remove_context_all(contexts, thread_id) == <<>>

\* remove_context: the map without the entry (the same map when it has none)
remove_context(contexts, thread_id) ==
    [t \in DOMAIN contexts \ {thread_id} |-> contexts[t]]

\* ------------------------------------------------------------ database.py
\* get_available_accounts: the distinct non-empty accounts of transacoes, or
\* the empty list when the query fails
get_available_accounts(rows, db_ok) ==
    IF db_ok
    THEN PreexistingAccounts \cup {rows[i].conta : i \in {j \in 1..Len(rows) : rows[j].conta # ""}}
    ELSE {}

\* validate_account: COUNT(*) of the rows of that account > 0
validate_account(rows, account) ==
    account \in PreexistingAccounts \/ \E i \in 1..Len(rows) : rows[i].conta = account

validate_category(categoria) == categoria \in LedgerCategories

Row(data, descricao, conta, categoria, centro_custo, valor) ==
    [data |-> data, descricao |-> descricao, conta |-> conta,
     categoria |-> categoria, centro_custo |-> centro_custo, valor |-> valor]

\* insert_grouped_transactions: one row per category; a category that does not
\* exist, or whose validation or INSERT raises (failing), counts as an error.
\* The result is the rows written and (saved_count, error_count).
RECURSIVE insert_grouped_loop(_, _, _, _, _, _)
insert_grouped_loop(data, groups, conta, estabelecimento, failing, acc) ==
    IF groups = <<>> THEN acc
    ELSE LET g == Head(groups)
             produtos == [i \in 1..Len(g.items) |-> g.items[i].descricao]
             descricao ==
                 IF estabelecimento \notin {NONE, "", Sentinel}
                 THEN <<"[BOT]", estabelecimento, "-">> \o produtos
                 ELSE <<"[BOT]">> \o produtos
             valor_total == 0 - SumValor(g.items)
             next ==
                 IF ~validate_category(g.categoria) \/ g.categoria \in failing
                 THEN [acc EXCEPT !.error_count = @ + 1]
                 ELSE [acc EXCEPT
                         !.rows = Append(@, Row(data, descricao, conta, g.categoria,
                                                "custeio", valor_total)),
                         !.saved_count = @ + 1]
         IN  insert_grouped_loop(data, Tail(groups), conta, estabelecimento, failing, next)

insert_grouped_transactions(data, transactions_by_category, conta, estabelecimento, failing) ==
    insert_grouped_loop(data, transactions_by_category, conta, estabelecimento, failing,
                        [rows |-> <<>>, saved_count |-> 0, error_count |-> 0])

\* an insert_transfer that does not look the accounts up
insert_transfer_unchecked(rows, data, valor, conta_origem, conta_destino, descricao, db) ==
    IF \/ conta_origem \in {NONE, ""} \/ conta_destino \in {NONE, ""}
       \/ conta_origem = conta_destino \/ valor <= 0 \/ db # "ok"
    THEN [success |-> FALSE, rows |-> <<>>]
    ELSE [success |-> TRUE,
          rows |-> <<Row(data, <<"[BOT]">>, conta_origem, "Transferência", "Nenhum",
                         0 - valor),
                     Row(data, <<"[BOT]">>, conta_destino, "Transferência", "Nenhum",
                         valor)>>]

\* an insert_transfer that writes the debit only
insert_transfer_debit_only(rows, data, valor, conta_origem, conta_destino, descricao, db) ==
    IF valor > 0 /\ conta_origem # conta_destino /\ db = "ok"
    THEN [success |-> TRUE,
          rows |-> <<Row(data, <<"[BOT]">>, conta_origem, "Transferência", "Nenhum",
                         0 - valor)>>]
    ELSE [success |-> FALSE, rows |-> <<>>]

\* insert_transfer: the checks, then the two INSERTs, each its own statement.
\* db is where the ledger fails: "ok" nowhere, "validate" in an account lookup,
\* "first" in the first INSERT, "second" in the second one.
insert_transfer(rows, data, valor, conta_origem, conta_destino, descricao, db) ==
    LET desc == IF descricao \in {NONE, ""}
                THEN <<"[BOT]", "Transferência de", conta_origem, "para", conta_destino>>
                ELSE IF descricao = "[BOT] rent" THEN <<descricao>>
                ELSE <<"[BOT]", descricao>>
        debit == Row(data, desc, conta_origem, "Transferência", "Nenhum", 0 - valor)
        credit == Row(data, desc, conta_destino, "Transferência", "Nenhum", valor)
        refused == [success |-> FALSE, rows |-> <<>>]
    IN  IF conta_origem \in {NONE, ""} \/ conta_destino \in {NONE, ""} THEN refused
        ELSE IF conta_origem = conta_destino THEN refused
        ELSE IF valor <= 0 THEN refused
        ELSE IF db = "validate" THEN refused
        ELSE IF ~validate_account(rows, conta_origem) THEN refused
        ELSE IF ~validate_account(rows, conta_destino) THEN refused
        ELSE IF db = "first" THEN refused
        ELSE IF db = "second" THEN [success |-> FALSE, rows |-> <<debit>>]
        ELSE [success |-> TRUE, rows |-> <<debit, credit>>]

\* what a call gives its caller: the value returned, or the exception raised
Failed(err) == [ok |-> FALSE, err |-> err, data |-> Null]
Returned(data) == [ok |-> TRUE, err |-> "", data |-> data]

\* ------------------------------------------------------ openai_service.py
\* identify_account: the model's answer when it names a known account, the
\* user's own text otherwise (no accounts, a failed call, any other answer)
identify_account(user_input, available_accounts, answer) ==
    IF available_accounts = {} THEN user_input
    ELSE IF answer \in available_accounts THEN answer
    ELSE user_input

\* A text is the set of the words and phrases found in it, so that
\* any(keyword in text for keyword in keywords) is a common element.
contains_any(text, keywords) == text \cap keywords # {}

\* the keyword lists of process_user_input's fallback
ConfirmKeywords ==
    {"sim", "ok", "pode seguir", "confirmo", "correto", "manda bala", "confirma"}
EditKeywords == {"troque", "mude", "altere", "corrija"}
HelpKeywords == {"ajuda", "help", "comandos"}

AIResponse(action, message) == [action |-> action, message |-> message]

AIResponse_from_dict(data) ==
    AIResponse(IF data.action = MISSING THEN "error" ELSE data.action,
               IF data.message = MISSING THEN "" ELSE data.message)

\* The completion of the two classifiers, by what becomes of it: "raise" the
\* call raised, "none" it has no content, "empty" nothing is left once the
\* fences are stripped, "garbage" json.loads rejects it, "number" it is a JSON
\* number or null, "list" a JSON list or string, "dict" a JSON object (body).
\* process_user_input's try block: the response the completion holds
process_user_input_try(completion) ==
    IF completion.k = "raise" THEN Failed("APIError")
    ELSE IF completion.k = "none" THEN Failed("AttributeError")
    ELSE IF completion.k = "empty" THEN Failed("ValueError")
    ELSE IF completion.k = "garbage" THEN Failed("JSONDecodeError")
    ELSE IF completion.k = "number" THEN Failed("TypeError")
    ELSE IF completion.k = "list" THEN Failed("ValueError")
    ELSE IF completion.body.action = MISSING THEN Failed("ValueError")
    ELSE Returned(AIResponse_from_dict(completion.body))

\* a fallback that looks for the edit words first
process_user_input_fallback_edit_first(user_input) ==
    IF contains_any(user_input, EditKeywords)
    THEN AIResponse("edit", "Editando classificação")
    ELSE IF contains_any(user_input, ConfirmKeywords)
    THEN AIResponse("confirm", "Confirmação recebida")
    ELSE IF contains_any(user_input, HelpKeywords)
    THEN AIResponse("help", "Mostrando ajuda")
    ELSE AIResponse("account", "Processando como conta")

\* process_user_input, except json.JSONDecodeError: the keyword fallback
process_user_input_fallback(user_input) ==
    IF contains_any(user_input, ConfirmKeywords)
    THEN AIResponse("confirm", "Confirmação recebida")
    ELSE IF contains_any(user_input, EditKeywords)
    THEN AIResponse("edit", "Editando classificação")
    ELSE IF contains_any(user_input, HelpKeywords)
    THEN AIResponse("help", "Mostrando ajuda")
    ELSE AIResponse("account", "Processando como conta")

\* process_user_input: the try block and its two except clauses
process_user_input(user_input, completion) ==
    LET tried == process_user_input_try(completion)
    IN  IF tried.ok THEN tried
        ELSE IF tried.err = "JSONDecodeError"
        THEN Returned(process_user_input_fallback(user_input))
        ELSE Returned(AIResponse("error",
                 "Desculpe, não consegui processar seu comando. Tente novamente."))

\* the keyword lists of detect_message_intent's fallback
TransferKeywords == {"transferi", "transf", "movi", "para", "pra"}
ExpenseKeywords == {"gastei", "comprei", "paguei", "mercado", "farmácia"}

\* confidence is in hundredths; extracted_data is the text of the object
MessageIntent(intent, confidence, extracted_data) ==
    [intent |-> intent, confidence |-> confidence, extracted_data |-> extracted_data]

\* MessageIntent.from_dict: float() raises on a confidence that is no number
MessageIntent_from_dict(data) ==
    IF data.confidence.k = "bad" THEN Failed("ValueError")
    ELSE Returned(MessageIntent(
             IF data.intent = MISSING THEN "other" ELSE data.intent,
             IF data.confidence.k = "missing" THEN 0 ELSE data.confidence.v,
             IF data.extracted_data = MISSING THEN "{}" ELSE data.extracted_data))

\* detect_message_intent's try block
detect_message_intent_try(completion) ==
    IF completion.k = "raise" THEN Failed("APIError")
    ELSE IF completion.k = "none" THEN Failed("AttributeError")
    ELSE IF completion.k = "empty" THEN Failed("ValueError")
    ELSE IF completion.k = "garbage" THEN Failed("JSONDecodeError")
    ELSE IF completion.k = "number" THEN Failed("TypeError")
    ELSE IF completion.k = "list" THEN Failed("ValueError")
    ELSE IF completion.body.intent = MISSING THEN Failed("ValueError")
    ELSE MessageIntent_from_dict(completion.body)

\* a fallback that looks for the expense words first
detect_message_intent_fallback_expense_first(message_content) ==
    IF contains_any(message_content, ExpenseKeywords)
    THEN MessageIntent("expense", 70, "{}")
    ELSE IF contains_any(message_content, TransferKeywords)
    THEN MessageIntent("transfer", 70, "{}")
    ELSE MessageIntent("other", 50, "{}")

\* detect_message_intent, except json.JSONDecodeError: the keyword fallback
detect_message_intent_fallback(message_content) ==
    IF contains_any(message_content, TransferKeywords)
    THEN MessageIntent("transfer", 70, "{}")
    ELSE IF contains_any(message_content, ExpenseKeywords)
    THEN MessageIntent("expense", 70, "{}")
    ELSE MessageIntent("other", 50, "{}")

\* detect_message_intent: the try block and its two except clauses
detect_message_intent(message_content, completion) ==
    LET tried == detect_message_intent_try(completion)
    IN  IF tried.ok THEN tried
        ELSE IF tried.err = "JSONDecodeError"
        THEN Returned(detect_message_intent_fallback(message_content))
        ELSE Returned(MessageIntent("other", 0, "{}"))

\* ---------------------------------------------------- transfer_service.py

\* _parse_transfer_response.  A well-formed date reaches datetime.timedelta,
\* an attribute the imported class datetime does not have: AttributeError,
\* which the except (ValueError, TypeError) around it does not catch.
parse_transfer_date(data_str, data_atual) ==
    IF data_str.k = "missing" THEN Returned(data_atual)
    ELSE IF data_str.k = "bad" THEN Returned(data_atual)
    ELSE Failed("AttributeError")

\* a _parse_transfer_response without the check that the accounts differ
parse_transfer_response_same_account(parsed_data, data_atual) ==
    IF parsed_data.valor.k = "bad" THEN Failed("ValueError")
    ELSE
    LET conta_origem == IF parsed_data.conta_origem = MISSING THEN ""
                        ELSE parsed_data.conta_origem
        conta_destino == IF parsed_data.conta_destino = MISSING THEN ""
                         ELSE parsed_data.conta_destino
        data_transferencia == parse_transfer_date(parsed_data.data, data_atual)
    IN  IF ~data_transferencia.ok THEN data_transferencia
        ELSE IF parsed_data.valor.v <= 0 THEN Failed("ValueError")
        ELSE IF conta_origem \in {"", NONE} \/ conta_destino \in {"", NONE}
             THEN Failed("ValueError")
        ELSE Returned([valor |-> parsed_data.valor.v,
                       conta_origem |-> conta_origem,
                       conta_destino |-> conta_destino,
                       data_transferencia |-> data_transferencia.data,
                       descricao |-> IF parsed_data.descricao
                                           \in {MISSING, NONE, "", "null"}
                                     THEN NONE ELSE parsed_data.descricao])

parse_transfer_response(parsed_data, data_atual) ==
    IF parsed_data.valor.k = "bad" THEN Failed("ValueError")
    ELSE
    LET valor == parsed_data.valor.v
        conta_origem == IF parsed_data.conta_origem = MISSING THEN ""
                        ELSE parsed_data.conta_origem
        conta_destino == IF parsed_data.conta_destino = MISSING THEN ""
                         ELSE parsed_data.conta_destino
        descricao == IF parsed_data.descricao \in {MISSING, NONE, "", "null"} THEN NONE
                     ELSE parsed_data.descricao
        data_transferencia == parse_transfer_date(parsed_data.data, data_atual)
    IN  IF ~data_transferencia.ok THEN data_transferencia
        ELSE IF valor <= 0 THEN Failed("ValueError")
        ELSE IF conta_origem \in {"", NONE} \/ conta_destino \in {"", NONE}
             THEN Failed("ValueError")
        ELSE IF conta_origem = conta_destino THEN Failed("ValueError")
        ELSE Returned([valor |-> valor,
                       conta_origem |-> conta_origem,
                       conta_destino |-> conta_destino,
                       data_transferencia |-> data_transferencia.data,
                       descricao |-> descricao])

\* process_transfer: the completion, json.loads, then _parse_transfer_response;
\* every exception is logged and raised again
process_transfer(response, data_atual) ==
    IF response.k # "json" THEN Failed("JSONDecodeError")
    ELSE parse_transfer_response(response.body, data_atual)

\* edit_transfer: the update holds the keys the model chose to return; only
\* those keys are checked, then the update is merged over the current data
edit_transfer(current_data, response) ==
    IF response.k # "json" THEN Failed("JSONDecodeError")
    ELSE
    LET updated_data == response.body
        keys == response.keys
        current == TransferData_to_dict(current_data)
        merged ==
           [valor |-> IF "valor" \in keys THEN updated_data.valor ELSE current.valor,
            conta_origem |-> IF "conta_origem" \in keys THEN updated_data.conta_origem
                             ELSE current.conta_origem,
            conta_destino |-> IF "conta_destino" \in keys THEN updated_data.conta_destino
                              ELSE current.conta_destino,
            data_transferencia |->
                IF "data_transferencia" \in keys
                THEN (IF updated_data.data_transferencia.k = "ok"
                      THEN isoformat(updated_data.data_transferencia.d) ELSE <<"bad">>)
                ELSE current.data_transferencia,
            descricao |-> IF "descricao" \in keys THEN updated_data.descricao
                          ELSE current.descricao]
    IN  IF "valor" \in keys /\ updated_data.valor.k = "bad" THEN Failed("TypeError")
        ELSE IF "valor" \in keys /\ updated_data.valor.v <= 0 THEN Failed("ValueError")
        ELSE IF /\ "conta_origem" \in keys
                /\ "conta_destino" \in keys
                /\ updated_data.conta_origem = updated_data.conta_destino
             THEN Failed("ValueError")
        ELSE Returned(TransferData_from_dict(merged))

\* ---------------------------------------------- classification_service.py
\* a validate_transaction_item that looks at the amount only
validate_transaction_item_amount_only(item) == item.valor.k # "bad"

\* validate_transaction_item: a description, a category, an amount float() takes
validate_transaction_item(item) ==
    /\ item.descricao \notin {"", NONE, MISSING}
    /\ item.categoria \notin {"", NONE, MISSING}
    /\ item.valor.k # "bad"

\* _parse_classification_response.  parsed_data is a JSON object ("dict") or
\* a JSON list ("list"); a list has no .get and raises at the first line.
parse_classification_response(parsed_kind, parsed_data, categories) ==
    IF parsed_kind # "dict" THEN Failed("AttributeError")
    ELSE
    LET data_compra == IF parsed_data.data.k = "ok" THEN parsed_data.data.d ELSE Today
        has_itens == parsed_data.has_itens
        items_data == IF has_itens THEN parsed_data.itens ELSE <<>>
        estabelecimento ==
            IF ~has_itens \/ parsed_data.estabelecimento = MISSING THEN Sentinel
            ELSE parsed_data.estabelecimento
    IN  IF \E i \in 1..Len(items_data) : ~validate_transaction_item(items_data[i])
        THEN Failed("ValueError")
        ELSE Returned([estabelecimento |-> estabelecimento,
                       data_compra |-> data_compra,
                       itens |-> [i \in 1..Len(items_data) |->
                                     TransactionItem_from_dict(items_data[i])],
                       available_categories |-> categories])

\* classify_image and classify_text_expense: the completion, json.loads, then
\* _parse_classification_response; every exception is raised again
classify(response, categories) ==
    IF response.k \notin {"dict", "list"} THEN Failed("JSONDecodeError")
    ELSE parse_classification_response(response.k, response.body, categories)

classify_image(response, categories) == classify(response, categories)
classify_text_expense(response, categories) == classify(response, categories)

\* an edit_classification that builds its result from the items alone
edit_classification_items_only(current_data, command, response, rounding) ==
    Returned([estabelecimento |-> Sentinel,
              data_compra |-> Today,
              itens |-> current_data.itens,
              available_categories |-> current_data.available_categories])

\* edit_classification.  The command is what the two scans find in it: total
\* is the number after the word total (NoNum: none, BadNum: one that float()
\* rejects), category is the category of the lexicon phrase (NONE: none).
edit_classification(current_data, command, response, rounding) ==
    IF command.total.k = "bad" THEN Failed("ValueError")
    ELSE
    LET has_total == command.total.k = "num" /\ command.total.v # 0
        has_category == command.category # NONE
        recategorised ==
            IF has_category
            THEN [i \in 1..Len(current_data.itens) |->
                    [current_data.itens[i] EXCEPT !.categoria = command.category]]
            ELSE current_data.itens
        updated_items ==
            IF has_total
            THEN redistribute_values_for_total(recategorised, command.total.v, rounding)
            ELSE recategorised
    IN  IF has_category \/ has_total
        THEN Returned([current_data EXCEPT !.itens = updated_items])
        ELSE IF response.k # "list" THEN Failed("JSONDecodeError")
        ELSE IF \E i \in 1..Len(response.body) : ~validate_transaction_item(response.body[i])
             THEN Failed("ValueError")
        ELSE Returned([current_data EXCEPT !.itens =
                          [i \in 1..Len(response.body) |->
                              TransactionItem_from_dict(response.body[i])]])

\* The completions edit_classification requests: none when the scans found
\* a category or a total that is truthy (a total of 0 is not), one otherwise.
edit_classification_completions(command) ==
    IF command.total.k = "bad" THEN 0
    ELSE IF command.category # NONE \/ (command.total.k = "num" /\ command.total.v # 0)
    THEN 0
    ELSE 1

\* an edit_classification whose category loop runs before float() reads the total
edit_classification_in_place_loop_first(current_data, command) ==
    IF command.category # NONE
    THEN [current_data EXCEPT !.itens =
             [i \in 1..Len(current_data.itens) |->
                 [current_data.itens[i] EXCEPT !.categoria = command.category]]]
    ELSE current_data

\* What edit_classification leaves in the ClassificationData it was handed,
\* which is the object the context holds: itens.copy() copies the list, not
\* the items, so the category loop writes the context's own items.  float()
\* reads the total before the loop, so a total it rejects leaves them alone.
edit_classification_in_place(current_data, command) ==
    IF command.total.k = "bad" THEN current_data
    ELSE IF command.category # NONE
    THEN [current_data EXCEPT !.itens =
             [i \in 1..Len(current_data.itens) |->
                 [current_data.itens[i] EXCEPT !.categoria = command.category]]]
    ELSE current_data

\* ------------------------------------------------------------------ inputs
\* What the language model can answer and what the user can type, one value
\* for each case the services tell apart.
Item(descricao, valor, categoria) ==
    [descricao |-> descricao, valor |-> valor, categoria |-> categoria]

ClassificationBody(estabelecimento, data, itens) ==
    [estabelecimento |-> estabelecimento, data |-> data, has_itens |-> TRUE, itens |-> itens]

Garbage == [k |-> "garbage", body |-> Null]

ClassificationResponses ==
    { [k |-> "dict", body |-> ClassificationBody("Market", Date(Today),
          <<Item("milk", Num(5000), "Alimentação - Básica")>>)],
      [k |-> "dict", body |-> ClassificationBody("Market", BadDate,
          <<Item("milk", Num(5000), "Alimentação - Básica")>>)],
      [k |-> "dict", body |-> ClassificationBody(MISSING, Date(Today - 45),
          <<Item("rice", Num(1000), "Alimentação - Básica"),
            Item("soap", Num(2000), "a classificar"),
            Item("nails", Num(3000), "Casa - Manutenção")>>)],
      [k |-> "dict", body |-> ClassificationBody("Market", NoDate,
          <<Item("milk", Num(5000), "Alimentação - Básica"),
            Item("", Num(100), "Alimentação - Básica")>>)],
      [k |-> "dict", body |-> ClassificationBody("Market", NoDate,
          <<Item("milk", BadNum, "Alimentação - Básica")>>)],
      [k |-> "dict", body |-> ClassificationBody("Market", NoDate,
          <<Item("milk", Num(5000), "")>>)],
      [k |-> "dict", body |-> ClassificationBody("Market", NoDate,
          <<Item("milk", Num(5000), "Alimentação - Básica"),
            Item("discount", Num(0 - 500), "Casa - Manutenção")>>)],
      [k |-> "dict", body |-> [ClassificationBody("Market", NoDate, <<>>)
                                  EXCEPT !.has_itens = FALSE]],
      [k |-> "list", body |-> Null],
      Garbage }

\* what edit_classification's scans find in the reply
EditCommands ==
    { [total |-> NoNum, category |-> NONE],
      [total |-> Num(12000), category |-> NONE],
      [total |-> Num(0), category |-> NONE],
      [total |-> BadNum, category |-> NONE],
      [total |-> BadNum, category |-> "Casa - Manutenção"],
      [total |-> NoNum, category |-> "Alimentação - Básica"] }

EditClassificationResponses ==
    { [k |-> "list", body |-> <<Item("milk", Num(5000), "Alimentação - Básica")>>],
      [k |-> "list", body |-> <<Item("", Num(2500), "Casa - Manutenção")>>],
      Garbage }

\* the edit made no completion
NoResponse == [k |-> "none", body |-> Null]
\* the roundings a handler's edit draws from: halfway amounts all down or all up
EditRoundings(items) ==
    {r \in Roundings(Len(items)) : r.ties_up \in {{}, 1..Len(items)}}

TransferBody(valor, conta_origem, conta_destino, data, descricao) ==
    [valor |-> valor, conta_origem |-> conta_origem, conta_destino |-> conta_destino,
     data |-> data, descricao |-> descricao]

TransferResponses ==
    { [k |-> "json", body |-> TransferBody(Num(10000), "A", "B", NoDate, NONE)],
      [k |-> "json", body |-> TransferBody(Num(10000), "A", "B", BadDate, "null")],
      [k |-> "json", body |-> TransferBody(Num(10000), "A", "B", NoDate, "rent")],
      [k |-> "json", body |-> TransferBody(Num(10000), "A", "B", Date(Today), NONE)],
      [k |-> "json", body |-> TransferBody(Num(10000), "A", "B", Date(Today - 45), NONE)],
      [k |-> "json", body |-> TransferBody(Num(10000), "A", "A", NoDate, NONE)],
      [k |-> "json", body |-> TransferBody(Num(0), "A", "A", NoDate, NONE)],
      [k |-> "json", body |-> TransferBody(Num(0), "A", "B", NoDate, NONE)],
      [k |-> "json", body |-> TransferBody(Num(0 - 500), "A", "B", NoDate, NONE)],
      [k |-> "json", body |-> TransferBody(Num(10000), "", "B", NoDate, NONE)],
      [k |-> "json", body |-> TransferBody(Num(10000), "A", MISSING, NoDate, NONE)],
      [k |-> "json", body |-> TransferBody(BadNum, "A", "B", NoDate, NONE)],
      Garbage }

TransferUpdate(keys, valor, conta_origem, conta_destino) ==
    [k |-> "json", keys |-> keys,
     body |-> [valor |-> valor, conta_origem |-> conta_origem,
               conta_destino |-> conta_destino, data_transferencia |-> Date(Today),
               descricao |-> "rent"]]

EditTransferResponses ==
    { TransferUpdate({"valor"}, Num(5000), "", ""),
      TransferUpdate({"valor"}, Num(0), "", ""),
      TransferUpdate({"valor"}, BadNum, "", ""),
      TransferUpdate({"conta_destino"}, NoNum, "", "A"),
      TransferUpdate({"conta_destino"}, NoNum, "", "C"),
      TransferUpdate({"conta_origem"}, NoNum, "", ""),
      TransferUpdate({"conta_origem", "conta_destino"}, NoNum, "B", "B"),
      [k |-> "garbage", keys |-> {}, body |-> Null] }

\* process_user_input's action; "other" is any string the handlers do not name
ReplyActions == {"confirm", "edit", "account", "help", "error", "other"}
\* detect_message_intent's intent; "chat" is any string the prompt does not name
Intents == {"transfer", "expense", "command", "other", "chat"}
\* The messages written in the main channel: whether the text starts with "/"
\* and the command after it (one handle_command knows, one it does not), and
\* the attachments: none, an image among them, or files only.
MainChannelMessages ==
    { [slash |-> TRUE, command |-> "ping", attachment |-> "none"],
      [slash |-> TRUE, command |-> "saldo", attachment |-> "image"],
      [slash |-> FALSE, command |-> "", attachment |-> "none"],
      [slash |-> FALSE, command |-> "", attachment |-> "image"],
      [slash |-> FALSE, command |-> "", attachment |-> "file"] }
\* an account reply's text, and identify_account's completion for it
AccountReplies == {"ok A", "C"}
AccountAnswers == {"A", "NÃO_IDENTIFICADA"}
\* the categories whose validation or INSERT raises
CategoryFailures == {{}, {"Alimentação - Básica"}, LedgerCategories}
\* where a ledger write can fail
TransferFailures == {"ok", "validate", "first", "second"}
\* whether the state file can be written
WriteOutcomes == {TRUE}

\* ------------------------------------------------------------------- state
VARIABLES
    user_contexts,   \* StateManager.user_contexts: thread id -> UserContext
    state_file,      \* the document save_state wrote last
    ledger,          \* the rows written to public.transacoes, in order
    threads,         \* number of threads create_thread has made
    messages,        \* number of messages on_message has handled
    last,            \* what the handler of the last message did
    applied,         \* a formatter applied on its own: arguments and result
    tasks,           \* the on_message tasks of the event loop: task -> position
    running          \* the task inside a call that holds the event loop, or 0

vars == <<user_contexts, state_file, ledger, threads, messages, last, applied,
          tasks, running>>

\* The handler's record: which handler ran (op) for which thread, the intent
\* or action the classifier gave (action), the completion the service parsed
\* (input), whether the service returned (ok), the accounts read and the
\* account settled on, insert_grouped_transactions' counts, the ledger calls
\* made, the completions edit_classification requested, the kinds of message
\* sent, and the message itself: its channel, whether its text starts with
\* "/", and its attachment ("none", "image", or "file" for any other kind).
Handled(op, thread, action, input, ok, sent) ==
    [op |-> op, thread |-> thread, action |-> action, input |-> input, ok |-> ok,
     accounts |-> {}, conta |-> "", saved_count |-> 0, error_count |-> 0,
     calls |-> <<>>, edit_completions |-> 0, sent |-> sent,
     message |-> [channel |-> "thread", slash |-> FALSE, attachment |-> "none"]]

\* the record of a handler that took a message written in the main channel
InMainChannel(handled, slash, attachment) ==
    [handled EXCEPT !.message =
        [channel |-> "main", slash |-> slash, attachment |-> attachment]]

\* the store after a handler: mutated tells whether a mutator ran save_state
Store(contexts, mutated) ==
    /\ messages < MaxMessages
    /\ messages' = messages + 1
    /\ user_contexts' = contexts
    /\ UNCHANGED <<applied, tasks, running>>
    /\ \E write_ok \in WriteOutcomes :
          state_file' = IF mutated THEN save_state(contexts, state_file, write_ok)
                        ELSE state_file

Init ==
    /\ user_contexts = <<>>
    /\ state_file = <<>>
    /\ ledger = <<>>
    /\ threads = 0
    /\ messages = 0
    /\ last = Handled("start", 0, "", Null, TRUE, {})
    /\ applied = [op |-> "none"]
    /\ tasks = <<>>
    /\ running = 0

\* ------------------------------------------------- on_message, main channel
\* an on_message that looks at the attachments before the "/"
on_message_attachments_first(slash, attachment) ==
    IF attachment = "image" THEN "_handle_image_attachment"
    ELSE IF slash THEN "handle_command"
    ELSE IF attachment # "none" THEN "return"
    ELSE "_handle_text_message"

\* on_message for a message of the main channel: the handler that takes it.
\* With attachments of which none is an image, nothing is called.
on_message(slash, attachment) ==
    IF slash THEN "handle_command"
    ELSE IF attachment = "image" THEN "_handle_image_attachment"
    ELSE IF attachment # "none" THEN "return"
    ELSE "_handle_text_message"

\* a _handle_text_message that takes every intent but transfer for an expense
handle_text_message_expense_by_default(intent) ==
    IF intent = "transfer" THEN "_handle_transfer_intent"
    ELSE "_handle_expense_intent"

\* _handle_text_message: the handler the detected intent is given to
handle_text_message(intent) ==
    IF intent = "transfer" THEN "_handle_transfer_intent"
    ELSE IF intent = "expense" THEN "_handle_expense_intent"
    ELSE "return"

\* handle_command: the reply to a command, by its name
KnownCommands ==
    {"status", "usage", "contas", "categorias", "help", "ping", "transferencias"}

handle_command(command) ==
    IF command \in KnownCommands THEN "command_reply" ELSE "unknown_command"

\* a message starting with "/": handle_command answers it
CommandMessage(slash, attachment, command) ==
    /\ Store(user_contexts, FALSE)
    /\ UNCHANGED <<ledger, threads>>
    /\ last' = InMainChannel(Handled("command", 0, command, Null, TRUE,
                                     {handle_command(command)}),
                             slash, attachment)

\* a message with attachments, none of them an image: on_message returns
IgnoredAttachment(slash, attachment) ==
    /\ Store(user_contexts, FALSE)
    /\ UNCHANGED <<ledger, threads>>
    /\ last' = InMainChannel(Handled("ignored", 0, "", Null, TRUE, {}),
                             slash, attachment)

\* _handle_image_attachment, then _process_image
ImageMessage(slash, attachment) ==
    \E categories_ok \in BOOLEAN, response \in ClassificationResponses :
        /\ threads < MaxThreads
        /\ LET thread == threads + 1
               context == UserContext(thread, "url", NONE, Null, Null)
               created == set_context(user_contexts, thread, context)
               result == classify_image(response, LedgerCategories)
           IN  /\ threads' = thread
               /\ IF ~categories_ok
                  THEN /\ Store(created, TRUE)
                       /\ last' = InMainChannel(
                                     Handled("image", thread, "image", Null, FALSE,
                                             {"greeting", "categories_error"}),
                                     slash, attachment)
                  ELSE IF ~result.ok
                  THEN /\ Store(created, TRUE)
                       /\ last' = InMainChannel(
                                     Handled("image", thread, "image", response, FALSE,
                                             {"greeting", "image_error"}),
                                     slash, attachment)
                  ELSE /\ Store(update_context(created, thread, "classification_data",
                                               result.data), TRUE)
                       /\ last' = InMainChannel(
                                     Handled("image", thread, "image", response, TRUE,
                                             {"greeting", "summary"}),
                                     slash, attachment)
        /\ UNCHANGED ledger

\* _handle_text_message with an intent that is neither transfer nor expense
TextOther(intent) ==
    /\ Store(user_contexts, FALSE)
    /\ UNCHANGED <<ledger, threads>>
    /\ last' = InMainChannel(Handled("text_other", 0, intent, Null, TRUE, {}),
                             FALSE, "none")

\* _handle_text_message -> _handle_expense_intent
ExpenseIntent(intent) ==
    \E categories_ok \in BOOLEAN, response \in ClassificationResponses :
        LET result == classify_text_expense(response, LedgerCategories)
            thread == threads + 1
        IN  /\ UNCHANGED ledger
            /\ IF ~categories_ok
               THEN /\ Store(user_contexts, FALSE)
                    /\ UNCHANGED threads
                    /\ last' = InMainChannel(
                                  Handled("expense_intent", 0, intent, Null, FALSE,
                                          {"categories_error"}),
                                  FALSE, "none")
               ELSE IF ~result.ok
               THEN /\ Store(user_contexts, FALSE)
                    /\ UNCHANGED threads
                    /\ last' = InMainChannel(
                                  Handled("expense_intent", 0, intent, response, FALSE,
                                          {"expense_error"}),
                                  FALSE, "none")
               ELSE /\ threads < MaxThreads
                    /\ threads' = thread
                    /\ Store(set_context(user_contexts, thread,
                                UserContext(thread, NONE, "text", result.data, Null)), TRUE)
                    /\ last' = InMainChannel(
                                  Handled("expense_intent", thread, intent, response, TRUE,
                                          {"greeting", "summary"}),
                                  FALSE, "none")

\* _handle_text_message -> _handle_transfer_intent
TransferIntent(intent, response, accounts_ok) ==
    LET available_accounts == get_available_accounts(ledger, accounts_ok)
        transfer_data == process_transfer(response, Today)
        thread == threads + 1
    IN  /\ UNCHANGED ledger
        /\ IF available_accounts = {}
           THEN /\ Store(user_contexts, FALSE)
                /\ UNCHANGED threads
                /\ last' = InMainChannel(
                              Handled("transfer_intent", 0, intent, Null, FALSE,
                                      {"accounts_error"}),
                              FALSE, "none")
           ELSE IF ~transfer_data.ok
           THEN /\ Store(user_contexts, FALSE)
                /\ UNCHANGED threads
                /\ last' = InMainChannel(
                              [Handled("transfer_intent", 0, intent, response, FALSE,
                                       {"transfer_error"})
                                 EXCEPT !.accounts = available_accounts],
                              FALSE, "none")
           ELSE /\ threads < MaxThreads
                /\ threads' = thread
                /\ Store(set_context(user_contexts, thread,
                            UserContext(thread, NONE, "text", Null, transfer_data.data)),
                         TRUE)
                /\ last' = InMainChannel(
                              [Handled("transfer_intent", thread, intent, response, TRUE,
                                       {"greeting", "summary"})
                                 EXCEPT !.accounts = available_accounts],
                              FALSE, "none")

TransferIntentMessage(intent) ==
    \E response \in TransferResponses, accounts_ok \in BOOLEAN :
        TransferIntent(intent, response, accounts_ok)

\* _handle_text_message: detect_message_intent, then the intent's handler
TextMessage ==
    \E intent \in Intents :
        \/ /\ handle_text_message(intent) = "_handle_transfer_intent"
           /\ TransferIntentMessage(intent)
        \/ /\ handle_text_message(intent) = "_handle_expense_intent"
           /\ ExpenseIntent(intent)
        \/ /\ handle_text_message(intent) = "return"
           /\ TextOther(intent)

\* on_message for a message written in the main channel
MainChannelMessage ==
    \E message \in MainChannelMessages :
        \/ /\ on_message(message.slash, message.attachment) = "handle_command"
           /\ CommandMessage(message.slash, message.attachment, message.command)
        \/ /\ on_message(message.slash, message.attachment) = "_handle_image_attachment"
           /\ ImageMessage(message.slash, message.attachment)
        \/ /\ on_message(message.slash, message.attachment) = "return"
           /\ IgnoredAttachment(message.slash, message.attachment)
        \/ /\ on_message(message.slash, message.attachment) = "_handle_text_message"
           /\ TextMessage

\* ------------------------------------------------ on_message, thread replies
\* _handle_thread_response dispatches on the payload the context holds
InClassificationThread(thread) ==
    /\ has_context(user_contexts, thread)
    /\ user_contexts[thread].classification_data # Null

InTransferThread(thread) ==
    /\ has_context(user_contexts, thread)
    /\ user_contexts[thread].classification_data = Null
    /\ user_contexts[thread].transfer_data # Null

Threads == 1..MaxThreads

\* _handle_classification_response, action "confirm"
ClassificationConfirm(thread) ==
    /\ InClassificationThread(thread)
    /\ Store(update_context(user_contexts, thread, "waiting_for_account", TRUE), TRUE)
    /\ UNCHANGED <<ledger, threads>>
    /\ last' = Handled("classification_confirm", thread, "confirm", Null, TRUE,
                       {"ask_account"})

\* _handle_classification_response, action "edit"
ClassificationEdit(thread, command, response) ==
    /\ InClassificationThread(thread)
    /\ response \in (IF edit_classification_completions(command) = 0
                     THEN {NoResponse} ELSE EditClassificationResponses)
    /\ \E rounding \in
             (IF command.total.k = "num" /\ command.total.v # 0
              THEN EditRoundings(user_contexts[thread].classification_data.itens)
              ELSE {[ties_up |-> {}, cent_exceeds |-> FALSE]}) :
          LET current_data == user_contexts[thread].classification_data
              updated_data == edit_classification(current_data, command, response,
                                                  rounding)
              handed == [user_contexts EXCEPT ![thread].classification_data =
                            edit_classification_in_place(current_data, command)]
              handled == [Handled("classification_edit", thread, "edit",
                                  [command |-> command, response |-> response],
                                  updated_data.ok,
                                  IF updated_data.ok THEN {"summary"}
                                  ELSE {"not_understood"})
                            EXCEPT !.edit_completions =
                                      edit_classification_completions(command)]
          IN  /\ IF updated_data.ok
                 THEN Store(update_context(handed, thread, "classification_data",
                                           updated_data.data), TRUE)
                 ELSE Store(handed, FALSE)
              /\ last' = handled
    /\ UNCHANGED <<ledger, threads>>

\* a _save_transactions that takes any account
account_never_checked(available_accounts, conta) == FALSE

\* the check of _save_transactions that stops an unknown account
account_not_found(available_accounts, conta) ==
    available_accounts # {} /\ conta \notin available_accounts

\* a _save_transactions that forgets to remove the context
context_after_save_kept(contexts, thread, saved_count, error_count) == contexts

\* what _save_transactions does once insert_grouped_transactions has returned
context_after_save(contexts, thread, saved_count, error_count) ==
    remove_context(contexts, thread)

\* _handle_classification_response, action "account" -> _save_transactions
SaveTransactions(thread, user_input, answer, accounts_ok, failing) ==
    /\ InClassificationThread(thread)
    /\ LET classification_data == user_contexts[thread].classification_data
           available_accounts == get_available_accounts(ledger, accounts_ok)
           conta == identify_account(user_input, available_accounts, answer)
           grouped_transactions == group_transactions_by_category(
                                       classification_data.itens)
           inserted == insert_grouped_transactions(
                           classification_data.data_compra, grouped_transactions, conta,
                           classification_data.estabelecimento, failing)
           call == [op |-> "insert_grouped_transactions",
                    data |-> classification_data.data_compra,
                    transactions_by_category |-> grouped_transactions,
                    conta |-> conta,
                    estabelecimento |-> classification_data.estabelecimento]
       IN  IF account_not_found(available_accounts, conta)
           THEN /\ Store(user_contexts, FALSE)
                /\ UNCHANGED ledger
                /\ last' = [Handled("save_transactions", thread, "account", Null, FALSE,
                                    {"unknown_account"})
                              EXCEPT !.accounts = available_accounts, !.conta = conta]
           ELSE /\ Len(ledger) + Len(inserted.rows) <= MaxRows
                /\ ledger' = ledger \o inserted.rows
                /\ Store(context_after_save(user_contexts, thread, inserted.saved_count,
                                            inserted.error_count), TRUE)
                /\ last' = [Handled("save_transactions", thread, "account", Null, TRUE,
                                    {"archived"}
                                    \cup (IF inserted.saved_count > 0 THEN {"saved"} ELSE {})
                                    \cup (IF inserted.error_count > 0 THEN {"failed"} ELSE {}))
                              EXCEPT !.accounts = available_accounts,
                                     !.conta = conta,
                                     !.saved_count = inserted.saved_count,
                                     !.error_count = inserted.error_count,
                                     !.calls = <<call>>]
    /\ UNCHANGED threads

\* _handle_classification_response, action "help" and every other action
ClassificationOther(thread, action) ==
    /\ InClassificationThread(thread)
    /\ Store(user_contexts, FALSE)
    /\ UNCHANGED <<ledger, threads>>
    /\ last' = Handled("classification_other", thread, action, Null, TRUE,
                       IF action = "help" THEN {"help"} ELSE {"ai_message"})

\* a _save_transfer that archives the thread whatever insert_transfer reports
context_after_transfer_always_removed(contexts, thread, success) ==
    remove_context(contexts, thread)

\* what _save_transfer does with the context once insert_transfer has returned
context_after_transfer(contexts, thread, success) ==
    IF success THEN remove_context(contexts, thread) ELSE contexts

\* _handle_transfer_response, action "confirm" -> _save_transfer
SaveTransfer(thread, db) ==
    /\ InTransferThread(thread)
    /\ LET transfer_data == user_contexts[thread].transfer_data
           inserted == insert_transfer(ledger, transfer_data.data_transferencia,
                                       transfer_data.valor, transfer_data.conta_origem,
                                       transfer_data.conta_destino, transfer_data.descricao,
                                       db)
           call == [op |-> "insert_transfer",
                    data |-> transfer_data.data_transferencia,
                    valor |-> transfer_data.valor,
                    conta_origem |-> transfer_data.conta_origem,
                    conta_destino |-> transfer_data.conta_destino,
                    descricao |-> transfer_data.descricao]
       IN  /\ Len(ledger) + Len(inserted.rows) <= MaxRows
           /\ ledger' = ledger \o inserted.rows
           /\ IF inserted.success
              THEN /\ Store(context_after_transfer(user_contexts, thread,
                                                  inserted.success), TRUE)
                   /\ last' = [Handled("save_transfer", thread, "confirm", Null, TRUE,
                                        {"done", "archived"})
                                 EXCEPT !.calls = <<call>>]
              ELSE /\ Store(context_after_transfer(user_contexts, thread,
                                                  inserted.success), FALSE)
                   /\ last' = [Handled("save_transfer", thread, "confirm", Null, FALSE,
                                        {"save_error"})
                                 EXCEPT !.calls = <<call>>]
    /\ UNCHANGED threads

\* _handle_transfer_response, action "edit"
TransferEdit(thread, response) ==
    /\ InTransferThread(thread)
    /\ LET updated_data == edit_transfer(user_contexts[thread].transfer_data, response)
       IN  IF updated_data.ok
           THEN /\ Store(update_context(user_contexts, thread, "transfer_data",
                                        updated_data.data), TRUE)
                /\ last' = Handled("transfer_edit", thread, "edit", response, TRUE, {"summary"})
           ELSE /\ Store(user_contexts, FALSE)
                /\ last' = Handled("transfer_edit", thread, "edit", response, FALSE,
                                   {"not_understood"})
    /\ UNCHANGED <<ledger, threads>>

\* _handle_transfer_response, action "help" and every other action
TransferOther(thread, action) ==
    /\ InTransferThread(thread)
    /\ Store(user_contexts, FALSE)
    /\ UNCHANGED <<ledger, threads>>
    /\ last' = Handled("transfer_other", thread, action, Null, TRUE,
                       IF action = "help" THEN {"help"} ELSE {"ai_message"})

\* _handle_thread_response for a context that holds neither payload
EmptyContextReply(thread) ==
    /\ has_context(user_contexts, thread)
    /\ user_contexts[thread].classification_data = Null
    /\ user_contexts[thread].transfer_data = Null
    /\ Store(user_contexts, FALSE)
    /\ UNCHANGED <<ledger, threads>>
    /\ last' = Handled("empty_context_reply", thread, "", Null, TRUE, {})

ClassificationReply ==
    \E thread \in Threads :
        \/ ClassificationConfirm(thread)
        \/ \E command \in EditCommands,
              response \in EditClassificationResponses \cup {NoResponse} :
              ClassificationEdit(thread, command, response)
        \/ \E user_input \in AccountReplies, answer \in AccountAnswers,
              accounts_ok \in BOOLEAN, failing \in CategoryFailures :
              SaveTransactions(thread, user_input, answer, accounts_ok, failing)
        \/ \E action \in ReplyActions \ {"confirm", "edit", "account"} :
              ClassificationOther(thread, action)

TransferReply ==
    \E thread \in Threads :
        \/ \E db \in TransferFailures : SaveTransfer(thread, db)
        \/ \E response \in EditTransferResponses : TransferEdit(thread, response)
        \/ \E action \in ReplyActions \ {"confirm", "edit"} : TransferOther(thread, action)

Next ==
    \/ MainChannelMessage
    \/ ClassificationReply
    \/ TransferReply
    \/ \E thread \in Threads : EmptyContextReply(thread)

Spec == Init /\ [][Next]_vars

\* ----------------------------------------------- the formatters on their own
\* The lists redistribute_values_for_total is applied to: up to MaxItems
\* amounts, one of them possibly a refund, and a target total.
AmountLists ==
    UNION {[1..n -> (0 - 1)..MaxValor] : n \in 0..MaxItems}

AmountItems(amounts) ==
    [i \in 1..Len(amounts) |->
        [descricao |-> i, valor |-> amounts[i], categoria |-> "Alimentação - Básica"]]

\* The lists group_transactions_by_category is applied to: the description
\* numbers the item, the category may repeat or be absent.
GroupCategories == {"Alimentação - Básica", "a classificar", MISSING}
\* amounts in cents, chosen so that sums carry into the units
GroupAmounts == {99, 150}

GroupLists ==
    UNION {[1..n -> GroupCategories \X GroupAmounts] : n \in 0..MaxGroupItems}

GroupItems(list) ==
    [i \in 1..Len(list) |->
        [descricao |-> i, valor |-> list[i][2], categoria |-> list[i][1]]]

FormatterInputs ==
    {[op |-> "input", fn |-> "redistribute_values_for_total",
      items |-> AmountItems(amounts), target_total |-> target_total] :
        amounts \in AmountLists, target_total \in 0..MaxTarget}
    \cup
    {[op |-> "input", fn |-> "group_transactions_by_category",
      items |-> GroupItems(list), target_total |-> 0] : list \in GroupLists}

InitFormatters ==
    /\ user_contexts = <<>>
    /\ state_file = <<>>
    /\ ledger = <<>>
    /\ threads = 0
    /\ messages = 0
    /\ last = Handled("start", 0, "", Null, TRUE, {})
    /\ applied \in FormatterInputs
    /\ tasks = <<>>
    /\ running = 0

Redistribute ==
    /\ applied.op = "input"
    /\ applied.fn = "redistribute_values_for_total"
    /\ \E rounding \in Roundings(Len(applied.items)) :
          applied' = [op |-> "redistribute_values_for_total",
                      items |-> applied.items,
                      target_total |-> applied.target_total,
                      result |-> redistribute_values_for_total(
                                    applied.items, applied.target_total, rounding)]
    /\ UNCHANGED <<user_contexts, state_file, ledger, threads, messages, last,
                   tasks, running>>

\* format_classification_summary's two steps, without the date line
GroupAndSummarise ==
    /\ applied.op = "input"
    /\ applied.fn = "group_transactions_by_category"
    /\ LET grouped == group_transactions_by_category(applied.items)
       IN  applied' = [op |-> "format_grouped_summary",
                       items |-> applied.items,
                       grouped |-> grouped,
                       summary |-> format_grouped_summary(grouped, Sentinel)]
    /\ UNCHANGED <<user_contexts, state_file, ledger, threads, messages, last,
                   tasks, running>>

NextFormatters ==
    \/ Redistribute
    \/ GroupAndSummarise

SpecFormatters == InitFormatters /\ [][NextFormatters]_vars

\* ---------------------------------------------- the classifiers on their own
\* the completions that hold no JSON object
FailedCompletions ==
    {[k |-> kind, body |-> Null] :
        kind \in {"raise", "none", "empty", "garbage", "number", "list"}}

\* replies, by the words found in them, and the completions for a reply
ReplyTexts == SUBSET {"ok", "mude", "help", "nubank"}

ReplyCompletions ==
    FailedCompletions \cup
    {[k |-> "dict", body |-> [action |-> action, message |-> message]] :
        action \in {MISSING, "confirm", "dance"}, message \in {MISSING, "Feito"}}

\* messages, by the words found in them, and the completions for a message
MessageTexts == SUBSET {"pra", "mercado", "oi"}

IntentCompletions ==
    FailedCompletions \cup
    {[k |-> "dict", body |-> [intent |-> intent, confidence |-> confidence,
                              extracted_data |-> extracted_data]] :
        intent \in {MISSING, "transfer", "chat"},
        confidence \in {Num(95), BadNum, NoNum},
        extracted_data \in {MISSING, "{\"valor\": 50.0}"}}

ClassifierInputs ==
    {[op |-> "input", fn |-> "process_user_input",
      text |-> text, completion |-> completion] :
        text \in ReplyTexts, completion \in ReplyCompletions}
    \cup
    {[op |-> "input", fn |-> "detect_message_intent",
      text |-> text, completion |-> completion] :
        text \in MessageTexts, completion \in IntentCompletions}

InitClassifiers ==
    /\ user_contexts = <<>>
    /\ state_file = <<>>
    /\ ledger = <<>>
    /\ threads = 0
    /\ messages = 0
    /\ last = Handled("start", 0, "", Null, TRUE, {})
    /\ applied \in ClassifierInputs
    /\ tasks = <<>>
    /\ running = 0

ProcessUserInput ==
    /\ applied.op = "input"
    /\ applied.fn = "process_user_input"
    /\ applied' = [op |-> "process_user_input",
                   text |-> applied.text,
                   completion |-> applied.completion,
                   result |-> process_user_input(applied.text, applied.completion)]
    /\ UNCHANGED <<user_contexts, state_file, ledger, threads, messages, last,
                   tasks, running>>

DetectMessageIntent ==
    /\ applied.op = "input"
    /\ applied.fn = "detect_message_intent"
    /\ applied' = [op |-> "detect_message_intent",
                   text |-> applied.text,
                   completion |-> applied.completion,
                   result |-> detect_message_intent(applied.text, applied.completion)]
    /\ UNCHANGED <<user_contexts, state_file, ledger, threads, messages, last,
                   tasks, running>>

NextClassifiers ==
    \/ ProcessUserInput
    \/ DetectMessageIntent

SpecClassifiers == InitClassifiers /\ [][NextClassifiers]_vars

\* ------------------------------------------- the event loop, thread replies
\* discord.py runs on_message for each message as a task of one event loop.
\* A task runs until it awaits a call that yields: an asyncpg call or
\* channel.send.  openai_service's client is the synchronous openai.OpenAI:
\* chat.completions.create returns the completion before the coroutine that
\* called it yields, so the loop runs no other task until it has returned
\* (running is that task).  The position of a task is the call it waits in;
\* mutator is the mutator of the state manager it called, found whether that
\* mutator found the thread's entry.
Tasks == 1..MaxTasks

OpenThreads == {1, 2}

Idle ==
    [pc |-> "idle", thread |-> 0, payload |-> "", data |-> Null,
     accounts |-> {}, conta |-> "", insertions |-> 0, mutator |-> "",
     found |-> FALSE]

\* the payloads of the threads open at the start: a classified purchase and
\* an extracted transfer
OpenClassification ==
    classify_text_expense(
        [k |-> "dict", body |-> ClassificationBody("Market", Date(Today),
            <<Item("milk", Num(5000), "Alimentação - Básica")>>)],
        LedgerCategories).data

OpenTransfer ==
    process_transfer(
        [k |-> "json", body |-> TransferBody(Num(10000), "A", "B", NoDate, NONE)],
        Today).data

\* the contexts a thread can have once a handler of the main channel made it
OpenContexts(thread) ==
    { UserContext(thread, NONE, "text", OpenClassification, Null),
      [UserContext(thread, NONE, "text", OpenClassification, Null)
          EXCEPT !.waiting_for_account = TRUE],
      UserContext(thread, NONE, "text", Null, OpenTransfer) }

\* process_user_input's actions the reply handlers tell apart here
InterleavedActions == {"confirm", "account", "help"}

InitInterleaved ==
    /\ user_contexts \in
          {f \in [OpenThreads -> UNION {OpenContexts(t) : t \in OpenThreads}] :
              \A t \in OpenThreads : f[t] \in OpenContexts(t)}
    /\ state_file = save_state(user_contexts, <<>>, TRUE)
    /\ ledger = <<>>
    /\ threads = 2
    /\ messages = 0
    /\ last = Handled("start", 0, "", Null, TRUE, {})
    /\ applied = [op |-> "open", contexts |-> user_contexts]
    /\ tasks = [task \in Tasks |-> Idle]
    /\ running = 0

\* a mutator of the state manager ran for the thread: the map, and the
\* document save_state writes when the mutator found the entry
Mutated(contexts, thread) ==
    /\ user_contexts' = contexts
    /\ state_file' = IF has_context(user_contexts, thread)
                     THEN save_state(contexts, state_file, TRUE)
                     ELSE state_file

\* on_message -> _handle_thread_response -> _handle_classification_response
\* or _handle_transfer_response, up to the completion process_user_input
\* requests; a message of a thread without context is dropped
Receive(task, thread) ==
    /\ running = 0
    /\ tasks[task].pc = "idle"
    /\ IF has_context(user_contexts, thread)
       THEN LET context == get_context(user_contexts, thread)
            IN  /\ tasks' = [tasks EXCEPT ![task] =
                               [@ EXCEPT !.pc = "process_user_input",
                                         !.thread = thread,
                                         !.payload =
                                            IF context.classification_data # Null
                                            THEN "classification" ELSE "transfer"]]
                /\ running' = task
       ELSE /\ tasks' = [tasks EXCEPT ![task] =
                            [@ EXCEPT !.pc = "done", !.thread = thread]]
            /\ running' = 0
    /\ UNCHANGED <<user_contexts, state_file, ledger, threads, messages, last, applied>>

\* the completion of process_user_input arrives: the handler goes on to its
\* first call that yields.  "account" and the transfer's "confirm" read the
\* payload of the context object the handler holds.
ProcessUserInputReturns(task, action) ==
    /\ running = task
    /\ tasks[task].pc = "process_user_input"
    /\ LET t == tasks[task]
           context == get_context(user_contexts, t.thread)
       IN  tasks' = [tasks EXCEPT ![task] =
              IF t.payload = "classification" /\ action = "confirm"
              THEN [@ EXCEPT !.pc = "send_ask_account"]
              ELSE IF t.payload = "classification" /\ action = "account"
              THEN [@ EXCEPT !.pc = "get_available_accounts",
                             !.data = context.classification_data]
              ELSE IF t.payload = "transfer" /\ action = "confirm"
              THEN [@ EXCEPT !.pc = "insert_transfer",
                             !.data = context.transfer_data]
              ELSE [@ EXCEPT !.pc = "send_reply"]]
    /\ running' = 0
    /\ UNCHANGED <<user_contexts, state_file, ledger, threads, messages, last, applied>>

\* "confirm": the question is sent, then update_context(waiting_for_account=True)
AskAccountSent(task) ==
    /\ running = 0
    /\ tasks[task].pc = "send_ask_account"
    /\ Mutated(update_context(user_contexts, tasks[task].thread,
                              "waiting_for_account", TRUE), tasks[task].thread)
    /\ tasks' = [tasks EXCEPT ![task] =
                    [@ EXCEPT !.pc = "done", !.mutator = "update_context",
                              !.found = has_context(user_contexts, tasks[task].thread)]]
    /\ UNCHANGED <<ledger, threads, messages, last, applied, running>>

\* _save_transactions: get_available_accounts returns, identify_account
\* requests its completion
AvailableAccountsReturn(task) ==
    /\ running = 0
    /\ tasks[task].pc = "get_available_accounts"
    /\ tasks' = [tasks EXCEPT ![task] =
                    [@ EXCEPT !.pc = "identify_account",
                              !.accounts = get_available_accounts(ledger, TRUE)]]
    /\ running' = task
    /\ UNCHANGED <<user_contexts, state_file, ledger, threads, messages, last, applied>>

\* _save_transactions: the account is identified and checked, the rows are
\* grouped and insert_grouped_transactions is called
IdentifyAccountReturns(task, answer) ==
    /\ running = task
    /\ tasks[task].pc = "identify_account"
    /\ LET conta == identify_account("ok A", tasks[task].accounts, answer)
       IN  tasks' = [tasks EXCEPT ![task] =
              IF account_not_found(tasks[task].accounts, conta)
              THEN [@ EXCEPT !.pc = "send_reply", !.conta = conta]
              ELSE [@ EXCEPT !.pc = "insert_grouped_transactions", !.conta = conta]]
    /\ running' = 0
    /\ UNCHANGED <<user_contexts, state_file, ledger, threads, messages, last, applied>>

\* _save_transactions: insert_grouped_transactions returns, the results are sent
InsertGroupedReturns(task) ==
    /\ running = 0
    /\ tasks[task].pc = "insert_grouped_transactions"
    /\ LET classification_data == tasks[task].data
           inserted == insert_grouped_transactions(
                           classification_data.data_compra,
                           group_transactions_by_category(classification_data.itens),
                           tasks[task].conta, classification_data.estabelecimento, {})
       IN  /\ ledger' = ledger \o inserted.rows
           /\ tasks' = [tasks EXCEPT ![task] =
                           [@ EXCEPT !.pc = "send_archived",
                                     !.insertions = @ + 1]]
    /\ UNCHANGED <<user_contexts, state_file, threads, messages, last, applied, running>>

\* _save_transfer: insert_transfer returns, the result is sent
InsertTransferReturns(task, db) ==
    /\ running = 0
    /\ tasks[task].pc = "insert_transfer"
    /\ LET transfer_data == tasks[task].data
           inserted == insert_transfer(ledger, transfer_data.data_transferencia,
                                       transfer_data.valor, transfer_data.conta_origem,
                                       transfer_data.conta_destino, transfer_data.descricao,
                                       db)
       IN  /\ ledger' = ledger \o inserted.rows
           /\ tasks' = [tasks EXCEPT ![task] =
                           IF inserted.success
                           THEN [@ EXCEPT !.pc = "send_archived", !.insertions = @ + 1]
                           ELSE [@ EXCEPT !.pc = "send_reply"]]
    /\ UNCHANGED <<user_contexts, state_file, threads, messages, last, applied, running>>

\* _save_transactions and _save_transfer: the closing message is sent, then
\* remove_context
ArchivedSent(task) ==
    /\ running = 0
    /\ tasks[task].pc = "send_archived"
    /\ Mutated(remove_context(user_contexts, tasks[task].thread), tasks[task].thread)
    /\ tasks' = [tasks EXCEPT ![task] =
                    [@ EXCEPT !.pc = "done", !.mutator = "remove_context",
                              !.found = has_context(user_contexts, tasks[task].thread)]]
    /\ UNCHANGED <<ledger, threads, messages, last, applied, running>>

\* _handle_text_message, up to the completion detect_message_intent requests
ReceiveText(task) ==
    /\ running = 0
    /\ tasks[task].pc = "idle"
    /\ tasks' = [tasks EXCEPT ![task] = [@ EXCEPT !.pc = "detect_message_intent"]]
    /\ running' = task
    /\ UNCHANGED <<user_contexts, state_file, ledger, threads, messages, last, applied>>

\* the intent arrives: "expense" asks the ledger for the categories, any
\* intent other than "transfer" and "expense" ends the handler
DetectMessageIntentReturns(task, intent) ==
    /\ running = task
    /\ tasks[task].pc = "detect_message_intent"
    /\ tasks' = [tasks EXCEPT ![task] =
                    IF handle_text_message(intent) = "_handle_expense_intent"
                    THEN [@ EXCEPT !.pc = "get_categories"]
                    ELSE [@ EXCEPT !.pc = "done"]]
    /\ running' = 0
    /\ UNCHANGED <<user_contexts, state_file, ledger, threads, messages, last, applied>>

\* _handle_expense_intent: get_categories returns, process_text_expense
\* requests its completion
CategoriesReturn(task) ==
    /\ running = 0
    /\ tasks[task].pc = "get_categories"
    /\ tasks' = [tasks EXCEPT ![task] = [@ EXCEPT !.pc = "process_text_expense"]]
    /\ running' = task
    /\ UNCHANGED <<user_contexts, state_file, ledger, threads, messages, last, applied>>

\* _handle_expense_intent: the purchase is classified, create_thread is called
ProcessTextExpenseReturns(task) ==
    /\ running = task
    /\ tasks[task].pc = "process_text_expense"
    /\ tasks' = [tasks EXCEPT ![task] =
                    [@ EXCEPT !.pc = "create_thread", !.data = OpenClassification]]
    /\ running' = 0
    /\ UNCHANGED <<user_contexts, state_file, ledger, threads, messages, last, applied>>

\* _handle_expense_intent: the thread is made, set_context, then the greeting
\* and the summary are sent
ThreadCreated(task) ==
    /\ running = 0
    /\ tasks[task].pc = "create_thread"
    /\ LET thread == threads + 1
       IN  /\ threads' = thread
           /\ user_contexts' = set_context(user_contexts, thread,
                                   UserContext(thread, NONE, "text", tasks[task].data, Null))
           /\ state_file' = save_state(user_contexts', state_file, TRUE)
           /\ tasks' = [tasks EXCEPT ![task] =
                           [@ EXCEPT !.pc = "send_reply", !.thread = thread,
                                     !.mutator = "set_context"]]
    /\ UNCHANGED <<ledger, messages, last, applied, running>>

\* every other answer: the message is sent and the handler returns
ReplySent(task) ==
    /\ running = 0
    /\ tasks[task].pc = "send_reply"
    /\ tasks' = [tasks EXCEPT ![task] = [@ EXCEPT !.pc = "done"]]
    /\ UNCHANGED <<user_contexts, state_file, ledger, threads, messages, last, applied,
                   running>>

\* the step a task that yielded takes when the event loop resumes it
Resume(task) ==
    \/ AskAccountSent(task)
    \/ AvailableAccountsReturn(task)
    \/ InsertGroupedReturns(task)
    \/ \E db \in {"ok", "validate"} : InsertTransferReturns(task, db)
    \/ ArchivedSent(task)
    \/ CategoriesReturn(task)
    \/ ThreadCreated(task)
    \/ ReplySent(task)

\* the step of the task that holds the event loop
CompletionReturns(task) ==
    \/ \E action \in InterleavedActions : ProcessUserInputReturns(task, action)
    \/ \E answer \in AccountAnswers : IdentifyAccountReturns(task, answer)
    \/ \E intent \in {"expense", "other"} : DetectMessageIntentReturns(task, intent)
    \/ ProcessTextExpenseReturns(task)

NextInterleaved ==
    \E task \in Tasks :
        \/ \E thread \in 1..threads : Receive(task, thread)
        \/ ReceiveText(task)
        \/ CompletionReturns(task)
        \/ Resume(task)

SpecInterleaved == InitInterleaved /\ [][NextInterleaved]_vars

\* ------------------------------------------ DatabaseManager.initialize
\* One call of initialize(max_retries, retry_delay).  An attempt is the body
\* of the try: create_pool, then SELECT 1 on a connection of the pool;
\* outcomes lists where each attempt made so far raised, or "ok".  attempt is
\* the loop's variable, sleeps the number of asyncio.sleep(retry_delay) calls
\* that have returned, pool the attempt whose create_pool gave self.pool (0:
\* None), raised the attempt whose error the call raised (0: none).
AttemptOutcomes == {"ok", "create_pool", "fetchval"}

InitializeCall(max_retries) ==
    [op |-> "initialize", max_retries |-> max_retries,
     pc |-> IF max_retries > 0 THEN "create_pool" ELSE "returned",
     attempt |-> 0, outcomes |-> <<>>, sleeps |-> 0, pool |-> 0, raised |-> 0]

\* an attempt whose failure is followed by the next attempt at once
initialize_attempt_no_wait(call, outcome) ==
    LET made == Append(call.outcomes, outcome)
    IN  IF outcome = "ok"
        THEN [call EXCEPT !.outcomes = made, !.pool = Len(made), !.pc = "returned"]
        ELSE IF call.attempt < call.max_retries - 1
        THEN [call EXCEPT !.outcomes = made, !.attempt = @ + 1]
        ELSE [call EXCEPT !.outcomes = made, !.pc = "raised", !.raised = Len(made)]

\* the try of one attempt and its except branch
initialize_attempt(call, outcome) ==
    LET made == Append(call.outcomes, outcome)
        pool == IF outcome = "create_pool" THEN call.pool ELSE Len(made)
    IN  IF outcome = "ok"
        THEN [call EXCEPT !.outcomes = made, !.pool = pool, !.pc = "returned"]
        ELSE IF call.attempt < call.max_retries - 1
        THEN [call EXCEPT !.outcomes = made, !.pool = pool, !.pc = "sleep"]
        ELSE [call EXCEPT !.outcomes = made, !.pool = pool, !.pc = "raised",
                          !.raised = Len(made)]

\* asyncio.sleep(retry_delay) returns and the loop goes to its next round
initialize_sleep(call) ==
    [call EXCEPT !.sleeps = @ + 1, !.attempt = @ + 1, !.pc = "create_pool"]

InitInitialize ==
    /\ user_contexts = <<>>
    /\ state_file = <<>>
    /\ ledger = <<>>
    /\ threads = 0
    /\ messages = 0
    /\ last = Handled("start", 0, "", Null, TRUE, {})
    /\ applied \in {InitializeCall(max_retries) : max_retries \in 0..MaxRetries}
    /\ tasks = <<>>
    /\ running = 0

Attempt ==
    /\ applied.pc = "create_pool"
    /\ \E outcome \in AttemptOutcomes : applied' = initialize_attempt(applied, outcome)
    /\ UNCHANGED <<user_contexts, state_file, ledger, threads, messages, last,
                   tasks, running>>

Sleep ==
    /\ applied.pc = "sleep"
    /\ applied' = initialize_sleep(applied)
    /\ UNCHANGED <<user_contexts, state_file, ledger, threads, messages, last,
                   tasks, running>>

NextInitialize ==
    \/ Attempt
    \/ Sleep

\* create_pool, the test query and asyncio.sleep each return or raise, and
\* the event loop then resumes the coroutine: a step that can be taken is taken
SpecInitialize == InitInitialize /\ [][NextInitialize]_vars /\ WF_vars(NextInitialize)

\* ------------------------------------------------------------------ claims
\* groups is items grouped by category: one group per category that occurs,
\* holding the items of that category in their order
IsGroupingOf(groups, items) ==
    /\ \A i, j \in 1..Len(groups) : groups[i].categoria = groups[j].categoria => i = j
    /\ \A i \in 1..Len(groups) :
          /\ groups[i].items # <<>>
          /\ groups[i].items =
                SelectSeq(items, LAMBDA it : it.categoria = groups[i].categoria)
    /\ \A k \in 1..Len(items) :
          \E i \in 1..Len(groups) : groups[i].categoria = items[k].categoria

\* C1: in a classification thread, an account reply (before or after a
\* confirm) whose identified account is a known account makes exactly one
\* insert_grouped_transactions call, with the stored purchase date, the stored
\* items grouped by category, that account and the stored establishment, and
\* afterwards the thread has no context in the store.
C1_KnownAccountSavesAndCloses ==
    [][(last'.op = "save_transactions" /\ last'.conta \in last'.accounts)
       => /\ InClassificationThread(last'.thread)
          /\ Len(last'.calls) = 1
          /\ LET call == last'.calls[1]
                 stored == user_contexts[last'.thread].classification_data
             IN  /\ call.op = "insert_grouped_transactions"
                 /\ call.data = stored.data_compra
                 /\ IsGroupingOf(call.transactions_by_category, stored.itens)
                 /\ call.conta = last'.conta
                 /\ call.estabelecimento = stored.estabelecimento
          /\ ~has_context(user_contexts', last'.thread)
          /\ ~has_context(load_state(state_file'), last'.thread)]_vars

C1_Witness ==
    /\ last.op = "save_transactions"
    /\ last.conta \in last.accounts
    /\ Len(last.calls) = 1
    /\ last.saved_count = 2
    /\ ~has_context(user_contexts, last.thread)

\* C2: _save_transactions removes the context only when a row was saved:
\* whenever insert_grouped_transactions reports saved_count = 0 the context
\* stays in the store.
C2_NothingSavedKeepsContext ==
    (last.op = "save_transactions" /\ Len(last.calls) = 1 /\ last.saved_count = 0)
        => has_context(user_contexts, last.thread)

C4_ExactlyOnePayload ==
    \A t \in DOMAIN user_contexts :
        (user_contexts[t].classification_data # Null)
            # (user_contexts[t].transfer_data # Null)

\* the extraction results C5 is about
RejectableTransfer(body) ==
    \/ body.conta_origem = body.conta_destino
    \/ (body.valor.k # "bad" /\ body.valor.v <= 0)
    \/ body.conta_origem \in {"", MISSING}
    \/ body.conta_destino \in {"", MISSING}

\* C5: process_transfer fails for every extraction result whose accounts are
\* equal, whose amount is 0 or negative, or that lacks an account name, and
\* _handle_transfer_intent then opens no thread, sets no context and inserts
\* no ledger row.
C5_InvalidTransferRejected ==
    [][(/\ last'.op = "transfer_intent"
        /\ last'.input # Null
        /\ last'.input.k = "json"
        /\ RejectableTransfer(last'.input.body))
       => /\ ~last'.ok
          /\ "transfer_error" \in last'.sent
          /\ threads' = threads
          /\ user_contexts' = user_contexts
          /\ state_file' = state_file
          /\ ledger' = ledger]_vars

C5_Witness ==
    /\ last.op = "transfer_intent"
    /\ last.input # Null
    /\ last.input.k = "json"
    /\ last.input.body.conta_origem = "A"
    /\ last.input.body.conta_destino = "A"
    /\ last.input.body.valor = Num(10000)
    /\ ~last.ok
    /\ threads = 0
    /\ user_contexts = <<>>

ValidTransferData(td) ==
    /\ td.valor > 0
    /\ td.conta_origem # td.conta_destino
    /\ td.conta_origem \notin {"", NONE}
    /\ td.conta_destino \notin {"", NONE}

\* C6: edit_transfer never returns a TransferData with amount <= 0, equal
\* accounts or an empty account name, so the transfer_data a transfer thread
\* holds after an edit reply is valid.
C6_EditedTransferValid ==
    (last.op = "transfer_edit" /\ has_context(user_contexts, last.thread))
        => ValidTransferData(user_contexts[last.thread].transfer_data)

\* C7: a transfer message whose extraction result is valid and carries a
\* well-formed date not older than 30 days opens a thread whose context holds
\* a TransferData with that date.
C7_ValidTransferOpensThread ==
    (/\ last.op = "transfer_intent"
     /\ last.input # Null
     /\ last.input.k = "json"
     /\ ~RejectableTransfer(last.input.body)
     /\ last.input.body.valor.k = "num"
     /\ last.input.body.data.k = "ok"
     /\ last.input.body.data.d >= Today - StaleDays)
        => /\ last.ok
           /\ InTransferThread(last.thread)
           /\ user_contexts[last.thread].transfer_data.data_transferencia
                 = last.input.body.data.d

\* C8: in a classification thread a confirm reply sets waiting_for_account,
\* keeps the context with its ClassificationData unchanged and inserts no
\* ledger row.
C8_ConfirmAwaitsAccount ==
    [][(last'.op = "classification_confirm")
       => /\ InClassificationThread(last'.thread)
          /\ has_context(user_contexts', last'.thread)
          /\ user_contexts'[last'.thread].waiting_for_account
          /\ user_contexts'[last'.thread].classification_data
                = user_contexts[last'.thread].classification_data
          /\ load_state(state_file')[last'.thread].waiting_for_account
          /\ ledger' = ledger
          /\ last'.calls = <<>>]_vars

C8_Witness ==
    /\ last.op = "classification_confirm"
    /\ InClassificationThread(last.thread)
    /\ user_contexts[last.thread].waiting_for_account
    /\ ledger = <<>>

\* C9: after a successful edit reply in a classification thread
\* waiting_for_account is false, whatever the thread's state before.
C9_EditReentersConfirmation ==
    (last.op = "classification_edit" /\ last.ok)
        => /\ InClassificationThread(last.thread)
           /\ ~user_contexts[last.thread].waiting_for_account

\* C10: in a transfer thread a confirm reply calls insert_transfer at once
\* with the stored TransferData, no other reply inserts a ledger row, and the
\* context is removed exactly when insert_transfer reports success.
C10_TransferThreadReplies ==
    [][\A t \in Threads :
         (InTransferThread(t) /\ last'.thread = t /\ last'.op # "start")
         => LET stored == user_contexts[t].transfer_data
            IN  /\ last'.action = "confirm"
                   => /\ Len(last'.calls) = 1
                      /\ last'.calls[1] =
                            [op |-> "insert_transfer",
                             data |-> stored.data_transferencia,
                             valor |-> stored.valor,
                             conta_origem |-> stored.conta_origem,
                             conta_destino |-> stored.conta_destino,
                             descricao |-> stored.descricao]
                      /\ has_context(user_contexts', t) <=> ~last'.ok
                      /\ last'.ok <=> "done" \in last'.sent
                      /\ ~last'.ok => user_contexts' = user_contexts
                /\ last'.action # "confirm"
                   => /\ ledger' = ledger
                      /\ last'.calls = <<>>
                      /\ has_context(user_contexts', t)]_vars

C10_Witness ==
    /\ last.op = "save_transfer"
    /\ last.ok
    /\ Len(ledger) = 2
    /\ ~has_context(user_contexts, last.thread)

\* C11: when edit_classification fails (a completion that is not a list of
\* items, an invalid item, a total float() rejects) the thread's context is
\* what it was before the reply, in the store and in the state file, and no
\* ledger row is inserted.
C11_FailedEditChangesNothing ==
    [][(last'.op = "classification_edit" /\ ~last'.ok)
       => /\ user_contexts' = user_contexts
          /\ state_file' = state_file
          /\ ledger' = ledger
          /\ last'.calls = <<>>
          /\ "not_understood" \in last'.sent]_vars

C11_Witness ==
    /\ last.op = "classification_edit"
    /\ ~last.ok
    /\ last.input.command.total = BadNum
    /\ last.input.command.category = "Casa - Manutenção"
    /\ InClassificationThread(last.thread)
    /\ \E i \in 1..Len(user_contexts[last.thread].classification_data.itens) :
          user_contexts[last.thread].classification_data.itens[i].categoria
             # "Casa - Manutenção"

\* an item of a completion that the services must refuse
RefusedItem(raw) ==
    \/ raw.descricao \in {"", MISSING}
    \/ raw.categoria \in {"", MISSING}
    \/ raw.valor.k = "bad"

\* an item as a context or a ledger call holds it
WellFormedItem(item) ==
    /\ item.descricao \notin {"", NONE, MISSING}
    /\ item.categoria \notin {"", NONE, MISSING}

C13_ClassifiedHasItems ==
    (last.op \in {"image", "expense_intent"} /\ last.ok)
        => Len(user_contexts[last.thread].classification_data.itens) >= 1

\* C14: every item of every ClassificationData a context holds has an amount
\* that is not negative.
C14_StoredAmountsNonNegative ==
    \A t \in DOMAIN user_contexts :
        user_contexts[t].classification_data # Null
           => \A i \in 1..Len(user_contexts[t].classification_data.itens) :
                 user_contexts[t].classification_data.itens[i].valor >= 0

\* C15: when classification returns for an extraction result dated more than
\* 30 days before today, the purchase date stored is today.
C15_StalePurchaseDateClamped ==
    (/\ last.op \in {"image", "expense_intent"}
     /\ last.ok
     /\ last.input.body.data.k = "ok"
     /\ last.input.body.data.d < Today - StaleDays)
        => user_contexts[last.thread].classification_data.data_compra = Today

\* C16: for a valid extraction result dated more than 30 days before today,
\* process_transfer returns a TransferData dated today, which the transfer
\* thread's context then holds.
C16_StaleTransferDateClamped ==
    (/\ last.op = "transfer_intent"
     /\ last.input # Null
     /\ last.input.k = "json"
     /\ ~RejectableTransfer(last.input.body)
     /\ last.input.body.valor.k = "num"
     /\ last.input.body.data.k = "ok"
     /\ last.input.body.data.d < Today - StaleDays)
        => /\ last.ok
           /\ InTransferThread(last.thread)
           /\ user_contexts[last.thread].transfer_data.data_transferencia = Today

\* C17: edit_classification requests no completion whenever the command holds
\* a total (any number, 0 included) or a phrase of the category lexicon, and
\* the edit then succeeds.
C17_ExplicitEditWithoutCompletion ==
    (/\ last.op = "classification_edit"
     /\ \/ last.input.command.total.k = "num"
        \/ last.input.command.category # NONE
     /\ last.input.command.total.k # "bad")
        => /\ last.edit_completions = 0
           /\ last.ok

\* C18: for every non-empty list whose amounts sum to more than 0 and every
\* target that is not negative, redistribute_values_for_total returns as many
\* items as it was given and their amounts sum to the target within one cent.
C18_RedistributeReachesTarget ==
    (/\ applied.op = "redistribute_values_for_total"
     /\ applied.items # <<>>
     /\ SumValor(applied.items) > 0)
        => /\ Len(applied.result) = Len(applied.items)
           /\ Abs(SumValor(applied.result) - applied.target_total) <= 1

C18_Witness ==
    /\ applied.op = "redistribute_values_for_total"
    /\ Len(applied.items) = 4
    /\ \A i \in 1..4 : applied.items[i].valor = 1
    /\ applied.target_total = 2
    /\ \A i \in 1..3 : applied.result[i].valor = 1
    /\ applied.result[4].valor = 0 - 1

\* C19: redistribute_values_for_total returns the items as they are, same
\* amounts in the same order, when the amounts sum to exactly 0 and when the
\* list is empty, whatever the target.
C19_RedistributeIdentityAtZero ==
    (/\ applied.op = "redistribute_values_for_total"
     /\ \/ applied.items = <<>>
        \/ SumValor(applied.items) = 0)
        => applied.result = applied.items

C19_Witness ==
    /\ applied.op = "redistribute_values_for_total"
    /\ Len(applied.items) = 2
    /\ applied.items[1].valor = 1
    /\ applied.items[2].valor = 0 - 1
    /\ applied.target_total = 3
    /\ applied.result = applied.items

\* the amount a rendered number stands for, in cents
ReadTwoDecimals(t) ==
    (IF t.negative THEN 0 - 1 ELSE 1) * (t.units * 100 + t.cents)

\* C20: group_transactions_by_category places every item exactly once, under
\* its own category, items in input order and categories in first-seen order;
\* the grand total format_grouped_summary renders for the grouping is the sum
\* of the amounts of the items, and an empty grouping renders the message
\* that no transaction was found.
C20_GroupingAndGrandTotal ==
    (applied.op = "format_grouped_summary")
        => LET items == applied.items
               grouped == applied.grouped
           IN  /\ \A k \in 1..Len(items) :
                     Cardinality({p \in {<<g, i>> : g \in 1..Len(grouped),
                                                   i \in 1..MaxGroupItems + 1} :
                                     /\ p[2] <= Len(grouped[p[1]].items)
                                     /\ grouped[p[1]].items[p[2]] = items[k]}) = 1
               /\ \A g \in 1..Len(grouped) :
                     /\ grouped[g].items # <<>>
                     /\ \A i \in 1..Len(grouped[g].items) :
                           /\ grouped[g].items[i] \in {items[k] : k \in 1..Len(items)}
                           /\ grouped[g].categoria
                                 = (IF grouped[g].items[i].categoria = MISSING
                                    THEN "a classificar"
                                    ELSE grouped[g].items[i].categoria)
                     /\ \A i, j \in 1..Len(grouped[g].items) :
                           i < j => grouped[g].items[i].descricao
                                       < grouped[g].items[j].descricao
               /\ \A g, h \in 1..Len(grouped) :
                     g < h => grouped[g].items[1].descricao
                                 < grouped[h].items[1].descricao
               /\ IF items = <<>>
                  THEN applied.summary = [text |-> "Nenhuma transação encontrada."]
                  ELSE /\ applied.summary.text = "Resumo por Categoria"
                       /\ ReadTwoDecimals(applied.summary.total_geral)
                             = SumValor(items)

C20_Witness ==
    /\ applied.op = "format_grouped_summary"
    /\ Len(applied.items) = 3
    /\ applied.items[1].categoria = "Alimentação - Básica"
    /\ applied.items[2].categoria = MISSING
    /\ applied.items[3].categoria = "Alimentação - Básica"
    /\ Len(applied.grouped) = 2
    /\ Len(applied.grouped[1].items) = 2
    /\ applied.summary.total_geral = TwoDecimals(SumValor(applied.items))

\* the rows of the ledger that a transfer call accounts for on one account
TransferRows(call, conta, valor) ==
    {i \in DOMAIN ledger : /\ ledger[i].categoria = "Transferência"
                           /\ ledger[i].data = call.data
                           /\ ledger[i].conta = conta
                           /\ ledger[i].valor = valor}

\* C21: once a confirm has written the transfer, also a confirm retried after
\* a ledger failure, the ledger holds exactly one negative row on the source
\* account and one positive row on the destination account of that transfer.
C21_RetriedTransferWrittenOnce ==
    (last.op = "save_transfer" /\ last.ok) =>
        LET call == last.calls[1]
        IN  /\ Cardinality(TransferRows(call, call.conta_origem, 0 - call.valor)) = 1
            /\ Cardinality(TransferRows(call, call.conta_destino, call.valor)) = 1

\* C22: when the extraction fails for a new message (image, text expense or
\* transfer), no context exists afterwards for the thread of that message.
C22_FailedExtractionLeavesNoContext ==
    (/\ last.op \in {"image", "expense_intent", "transfer_intent"}
     /\ last.input # Null
     /\ ~last.ok)
        => ~has_context(user_contexts, last.thread)

\* what the service called by the last handler gave back to it; the edits are
\* read after a failure, when the context still holds the data they were given
LastServiceResult ==
    IF last.op = "image" /\ last.input # Null
    THEN classify_image(last.input, LedgerCategories)
    ELSE IF last.op = "expense_intent" /\ last.input # Null
    THEN classify_text_expense(last.input, LedgerCategories)
    ELSE IF last.op = "transfer_intent" /\ last.input # Null
    THEN process_transfer(last.input, Today)
    ELSE IF last.op = "transfer_edit" /\ ~last.ok
    THEN edit_transfer(user_contexts[last.thread].transfer_data, last.input)
    ELSE IF last.op = "classification_edit" /\ ~last.ok
    THEN edit_classification(user_contexts[last.thread].classification_data,
                             last.input.command, last.input.response,
                             [ties_up |-> {}, cent_exceeds |-> FALSE])
    ELSE Returned(Null)

\* C23: classify_image, classify_text_expense, edit_classification,
\* process_transfer and edit_transfer never hand the JSON parser's exception
\* to their caller: a completion that cannot be parsed gives a typed error.
C23_ParserErrorNeverReachesCaller ==
    LastServiceResult.ok \/ LastServiceResult.err # "JSONDecodeError"

\* the handlers of a reply written in a thread that has a context
ThreadReplyOps ==
    {"classification_confirm", "classification_edit", "save_transactions",
     "classification_other", "save_transfer", "transfer_edit", "transfer_other",
     "empty_context_reply"}

\* C24: once the handler of a reply in a thread with a context has run, at
\* least one message has been sent back, whatever the context holds and
\* whatever the classifier and the services returned or raised.
C24_ThreadReplyAnswered ==
    last.op \in ThreadReplyOps => last.sent # {}

\* the completions that are a failure other than unparseable JSON
OtherFailure(completion, key) ==
    \/ completion.k \in {"raise", "none", "empty", "number", "list"}
    \/ completion.k = "dict" /\ completion.body[key] = MISSING

\* C25: process_user_input never raises.  When the completion is not JSON the
\* reply's words decide: a confirmation word gives confirm, else an edit word
\* edit, else a help word help, else account.  Any other failure gives the
\* action error with the apology.
C25_ReplyFallback ==
    applied.op = "process_user_input" =>
        /\ applied.result.ok
        /\ applied.completion.k = "garbage" =>
              applied.result.data.action =
                 IF applied.text \cap ConfirmKeywords # {} THEN "confirm"
                 ELSE IF applied.text \cap EditKeywords # {} THEN "edit"
                 ELSE IF applied.text \cap HelpKeywords # {} THEN "help"
                 ELSE "account"
        /\ OtherFailure(applied.completion, "action") =>
              applied.result.data = AIResponse("error",
                 "Desculpe, não consegui processar seu comando. Tente novamente.")

\* a reply with a confirmation word and an edit word, its completion not JSON
C25_Witness ==
    /\ applied.op = "process_user_input"
    /\ applied.completion.k = "garbage"
    /\ applied.text = {"ok", "mude"}
    /\ applied.result.data.action = "confirm"

\* C26: detect_message_intent never raises.  When the completion is not JSON
\* the message's words decide: a transfer keyword gives transfer at 0.7, else
\* an expense keyword expense at 0.7, else other at 0.5.  Any other failure
\* gives other at confidence 0.
C26_IntentFallback ==
    applied.op = "detect_message_intent" =>
        /\ applied.result.ok
        /\ applied.completion.k = "garbage" =>
              /\ applied.result.data.intent =
                    IF applied.text \cap TransferKeywords # {} THEN "transfer"
                    ELSE IF applied.text \cap ExpenseKeywords # {} THEN "expense"
                    ELSE "other"
              /\ applied.result.data.confidence =
                    IF applied.result.data.intent = "other" THEN 50 ELSE 70
        /\ (\/ OtherFailure(applied.completion, "intent")
            \/ applied.completion.k = "dict" /\ applied.completion.body.confidence = BadNum)
              => /\ applied.result.data.intent = "other"
                 /\ applied.result.data.confidence = 0

\* a message with a transfer keyword and an expense keyword, its completion
\* not JSON
C26_Witness ==
    /\ applied.op = "detect_message_intent"
    /\ applied.completion.k = "garbage"
    /\ applied.text = {"pra", "mercado"}
    /\ applied.result.data.intent = "transfer"
    /\ applied.result.data.confidence = 70

\* a step that opens no thread and leaves the store, its durable document and
\* the ledger as they were
NothingElseHappens ==
    /\ threads' = threads
    /\ user_contexts' = user_contexts
    /\ state_file' = state_file
    /\ ledger' = ledger

\* C27: a main-channel message whose text starts with "/" is given to
\* handle_command, which answers it, and nothing else happens: no thread is
\* opened, nothing is classified, and the store and the ledger are unchanged,
\* also when the message carries an image and when the command is not known.
C27_CommandOnly ==
    [][(last'.message.channel = "main" /\ last'.message.slash) =>
          /\ NothingElseHappens
          /\ last'.op = "command"
          /\ last'.input = Null
          /\ last'.sent = {handle_command(last'.action)}]_vars

\* an unknown command with an image attached, written while a thread is open
C27_Witness ==
    /\ last.op = "command"
    /\ last.message.attachment = "image"
    /\ last.action \notin KnownCommands
    /\ user_contexts # <<>>

\* C28: a plain-text message of the main channel whose detected intent is
\* neither expense nor transfer opens no thread and leaves the store and the
\* ledger unchanged.
C28_OtherIntentChangesNothing ==
    [][(/\ last'.message.channel = "main"
        /\ ~last'.message.slash
        /\ last'.message.attachment = "none"
        /\ last'.action \notin {"expense", "transfer"}) =>
          /\ NothingElseHappens
          /\ last'.op = "text_other"]_vars

\* a message of an intent the prompt does not name, written while a thread is
\* open
C28_Witness ==
    /\ last.op = "text_other"
    /\ last.action = "chat"
    /\ user_contexts # <<>>

\* C29: save_state followed by load_state restores a map equal to the one
\* saved: the same threads, and for each the same user_id, thread_id,
\* attachment_url, message_content, waiting_for_account and payload, with its
\* items, establishment, accounts, description and dates.
C29_SaveThenLoadRestores ==
    load_state(save_state(user_contexts, state_file, TRUE)) = user_contexts

\* a classification of several items, dated before today, awaiting its account
C29_Witness ==
    \E t \in DOMAIN user_contexts :
        /\ user_contexts[t].classification_data # Null
        /\ Len(user_contexts[t].classification_data.itens) >= 2
        /\ user_contexts[t].classification_data.data_compra # Today
        /\ user_contexts[t].waiting_for_account

\* the serialisation of a map of contexts: to_dict of each, under its thread
Serialisation(contexts) ==
    [t \in DOMAIN contexts |-> UserContext_to_dict(contexts[t])]

\* C30: whenever a handler has finished, whichever of set_context,
\* update_context and remove_context it called, the durable document is the
\* serialisation of the in-memory map (every write having succeeded).
C30_DocumentFollowsMap ==
    state_file = Serialisation(user_contexts)

\* an edit has replaced the payload of a stored context
C30_Witness ==
    /\ last.op = "classification_edit"
    /\ last.ok
    /\ has_context(user_contexts, last.thread)
    /\ state_file # <<>>

\* every task has run to its end
AllDone == \A task \in Tasks : tasks[task].pc = "done"

\* the tasks that worked on the thread
TasksOf(thread) == {task \in Tasks : tasks[task].thread = thread}

\* the context the thread had when the tasks started, or the one set_context
\* gave it
FirstContext(thread) ==
    IF thread \in DOMAIN applied.contexts THEN applied.contexts[thread]
    ELSE UserContext(thread, NONE, "text", OpenClassification, Null)

\* C31: no update is lost across threads.  At every point of every
\* interleaving the durable document is the serialisation of the whole map,
\* and once the handlers have finished, each of a different thread, every
\* thread has its latest context in the map: the one a confirm updated, none
\* where a save removed it, the one set_context stored, and otherwise the
\* context it had at the start.
C31_NoLostUpdateAcrossThreads ==
    /\ state_file = Serialisation(user_contexts)
    /\ (AllDone /\ \A thread \in 1..threads : Cardinality(TasksOf(thread)) <= 1)
       => \A thread \in 1..threads :
             LET mutator == IF TasksOf(thread) = {} THEN ""
                            ELSE tasks[CHOOSE task \in TasksOf(thread) : TRUE].mutator
             IN  IF mutator = "remove_context"
                 THEN ~has_context(user_contexts, thread)
                 ELSE /\ has_context(user_contexts, thread)
                      /\ user_contexts[thread] =
                            IF mutator = "update_context"
                            THEN [FirstContext(thread) EXCEPT !.waiting_for_account = TRUE]
                            ELSE FirstContext(thread)

\* two handlers of different threads have finished: one confirmed a
\* classification, the other saved and closed its thread
C31_Witness ==
    /\ AllDone
    /\ \E a, b \in Tasks :
          /\ tasks[a].thread # tasks[b].thread
          /\ tasks[a].mutator = "update_context"
          /\ tasks[b].mutator = "remove_context"
          /\ tasks[b].insertions = 1
          /\ user_contexts[tasks[a].thread].waiting_for_account
          /\ ~has_context(user_contexts, tasks[b].thread)

\* the positions in which a task waits for an LLM completion, and those in
\* which it waits for a ledger operation
LLMCalls ==
    {"process_user_input", "identify_account", "detect_message_intent",
     "process_text_expense"}

LedgerCalls ==
    {"get_available_accounts", "insert_grouped_transactions", "insert_transfer",
     "get_categories"}

\* a step of task b on a thread other than the one task a works on: it
\* takes a message of such a thread, or goes on after the call it waited in
StepInOtherThread(a, b) ==
    \/ \E thread \in 1..threads : thread # tasks[a].thread /\ Receive(b, thread)
    \/ tasks[b].thread # tasks[a].thread /\ (CompletionReturns(b) \/ Resume(b))

\* C32: while the handler of one thread's message waits for an LLM completion
\* or for a ledger operation, the handler of a message of another thread can
\* take a step.
C32_OtherThreadStepsDuringCall ==
    \A a, b \in Tasks :
        (/\ a # b
         /\ tasks[a].pc \in LLMCalls \cup LedgerCalls
         /\ tasks[a].thread # 0
         /\ tasks[b].pc # "done"
         /\ tasks[b].pc = "idle" \/ tasks[b].thread \notin {0, tasks[a].thread})
        => ENABLED StepInOtherThread(a, b)

\* C33: a successful insert_transfer adds exactly two rows to the ledger, of
\* the same date and the same description: the first on the source account
\* with minus the amount, the second on the destination account with the
\* amount, so that they add up to 0; when no description was given both rows
\* carry the one made from the two accounts.
C33_TransferWritesTwoRows ==
    [][(last'.op = "save_transfer" /\ last'.ok)
       => LET call == last'.calls[1]
              n == Len(ledger)
          IN  /\ Len(ledger') = n + 2
              /\ SubSeq(ledger', 1, n) = ledger
              /\ ledger'[n + 1].conta = call.conta_origem
              /\ ledger'[n + 1].valor = 0 - call.valor
              /\ ledger'[n + 2].conta = call.conta_destino
              /\ ledger'[n + 2].valor = call.valor
              /\ ledger'[n + 1].valor + ledger'[n + 2].valor = 0
              /\ ledger'[n + 1].data = call.data
              /\ ledger'[n + 2].data = call.data
              /\ ledger'[n + 1].descricao = ledger'[n + 2].descricao
              /\ call.descricao \in {NONE, ""}
                    => ledger'[n + 1].descricao =
                          <<"[BOT]", "Transferência de", call.conta_origem, "para",
                            call.conta_destino>>]_vars

\* a confirmed transfer without description has been written
C33_Witness ==
    /\ last.op = "save_transfer"
    /\ last.ok
    /\ last.calls[1].descricao = NONE
    /\ Len(ledger) >= 2
    /\ ledger[Len(ledger)].valor = last.calls[1].valor
    /\ ledger[Len(ledger) - 1].valor = 0 - last.calls[1].valor

\* the rows the last insert_grouped_transactions wrote: the ledger's last
\* saved_count rows
RowsOfLastSave ==
    SubSeq(ledger, Len(ledger) - last.saved_count + 1, Len(ledger))

\* C34: insert_grouped_transactions writes at most one row per category of
\* the grouped items, only for categories of the ledger, each with a negative
\* amount that is minus the sum of the category's items, and its two counts
\* add up to the number of categories.
C34_OneNegativeRowPerCategory ==
    (last.op = "save_transactions" /\ last.calls # <<>>)
    => LET groups == last.calls[1].transactions_by_category
           rows == RowsOfLastSave
       IN  /\ last.saved_count + last.error_count = Len(groups)
           /\ \A i, j \in DOMAIN rows : rows[i].categoria = rows[j].categoria => i = j
           /\ \A i \in DOMAIN rows :
                 /\ validate_category(rows[i].categoria)
                 /\ \E g \in DOMAIN groups :
                       /\ groups[g].categoria = rows[i].categoria
                       /\ rows[i].valor = 0 - SumValor(groups[g].items)
                 /\ rows[i].valor < 0

\* C35: for every thread, the ledger insertion of its context is performed at
\* most once, however the handlers of two replies of the thread interleave.
C35_InsertedAtMostOnce ==
    \A thread \in 1..threads :
        Cardinality({task \in TasksOf(thread) : tasks[task].insertions > 0}) <= 1

\* a handler saved the thread's context and removed it
Saved(thread) ==
    \E task \in TasksOf(thread) :
        tasks[task].mutator = "remove_context" /\ tasks[task].found

\* C36: a saved thread stays closed.  Once a handler has removed the thread's
\* context after saving, the thread has no entry, and no step of a handler
\* still running for the thread makes or changes one: such a step leaves the
\* map and the document as they are; and an entry is only ever made for a
\* thread that has just been opened.
C36_SavedIsAbsorbing ==
    [][/\ \A thread \in 1..threads :
             Saved(thread)
             => /\ ~has_context(user_contexts, thread)
                /\ ~has_context(user_contexts', thread)
                /\ (\E task \in TasksOf(thread) : tasks'[task] # tasks[task])
                      => user_contexts' = user_contexts /\ state_file' = state_file
       /\ \A thread \in DOMAIN user_contexts' \ DOMAIN user_contexts :
             thread = threads + 1 /\ threads' = thread]_vars

\* a thread was saved and closed while another reply of it waited for its
\* question to be sent; that handler has since called update_context
C36_Witness ==
    \E a, b \in Tasks :
        /\ tasks[a].thread = tasks[b].thread
        /\ tasks[a].mutator = "remove_context" /\ tasks[a].found
        /\ tasks[b].mutator = "update_context" /\ ~tasks[b].found
        /\ tasks[b].pc = "done"
        /\ ~has_context(user_contexts, tasks[a].thread)
        /\ state_file = Serialisation(user_contexts)

\* the transfers insert_transfer has to refuse, given the rows of the ledger
RefusedTransfer(rows, valor, conta_origem, conta_destino) ==
    \/ conta_origem = conta_destino
    \/ valor <= 0
    \/ conta_origem = "" \/ conta_destino = ""
    \/ ~validate_account(rows, conta_origem)
    \/ ~validate_account(rows, conta_destino)

\* C37: insert_transfer writes no row when the two accounts are equal, the
\* amount is 0 or less, an account name is empty, or an account is unknown to
\* the ledger, whatever transfer it is given; and when the transfer of the
\* context is such a one, _save_transfer changes no row, reports the error
\* and keeps the context.
C37_RefusedTransferWritesNothing ==
    [][last'.op = "save_transfer"
       => /\ \A valor \in {0 - 500, 0, 10000}, db \in TransferFailures,
               conta_origem \in {"", "A", "C"}, conta_destino \in {"", "A", "B", "C"} :
                RefusedTransfer(ledger, valor, conta_origem, conta_destino)
                => insert_transfer(ledger, Today, valor, conta_origem, conta_destino,
                                   NONE, db) = [success |-> FALSE, rows |-> <<>>]
          /\ RefusedTransfer(ledger, last'.calls[1].valor, last'.calls[1].conta_origem,
                             last'.calls[1].conta_destino)
             => /\ ledger' = ledger
                /\ ~last'.ok
                /\ last'.sent = {"save_error"}
                /\ user_contexts' = user_contexts
                /\ has_context(user_contexts', last'.thread)
                /\ state_file' = state_file]_vars

\* a transfer edited to an account the ledger does not know, then confirmed:
\* nothing was written and the context is still there
C37_Witness ==
    /\ last.op = "save_transfer"
    /\ ~last.ok
    /\ ~validate_account(ledger, last.calls[1].conta_destino)
    /\ last.calls[1].conta_destino # ""
    /\ has_context(user_contexts, last.thread)
    /\ user_contexts[last.thread].transfer_data.conta_destino = last.calls[1].conta_destino

\* C38: edit_classification returns a ClassificationData with the
\* establishment, the purchase date and the available categories it was
\* given, on both paths; on the path without completion the items keep their
\* number, order and descriptions, their amounts when the command names no
\* total, and their categories when it names no category of the lexicon.
C38_EditKeepsTheRest ==
    [][(last'.op = "classification_edit" /\ last'.ok)
       => LET before == user_contexts[last'.thread].classification_data
              after == user_contexts'[last'.thread].classification_data
              command == last'.input.command
              no_total == command.total.k # "num" \/ command.total.v = 0
          IN  /\ after.estabelecimento = before.estabelecimento
              /\ after.data_compra = before.data_compra
              /\ after.available_categories = before.available_categories
              /\ last'.edit_completions = 0
                 => /\ Len(after.itens) = Len(before.itens)
                    /\ \A i \in 1..Len(before.itens) :
                          /\ after.itens[i].descricao = before.itens[i].descricao
                          /\ no_total => after.itens[i].valor = before.itens[i].valor
                          /\ command.category = NONE
                                => after.itens[i].categoria = before.itens[i].categoria]_vars

\* an edit that named a total was applied to a purchase of several items,
\* dated before today, without a completion
C38_Witness ==
    /\ last.op = "classification_edit"
    /\ last.ok
    /\ last.edit_completions = 0
    /\ last.input.command.total.k = "num"
    /\ last.input.command.category = NONE
    /\ has_context(user_contexts, last.thread)
    /\ Len(user_contexts[last.thread].classification_data.itens) > 1
    /\ user_contexts[last.thread].classification_data.data_compra # Today
    /\ SumValor(user_contexts[last.thread].classification_data.itens)
          = last.input.command.total.v

\* the attempts of the call made so far that raised
FailedAttempts == {i \in DOMAIN applied.outcomes : applied.outcomes[i] # "ok"}

\* C39: initialize ends, after max_retries attempts at most.  It returns at
\* the first attempt that succeeds and makes none after it; it has slept once
\* after every failed attempt but the last of max_retries; and when all
\* max_retries attempts failed it raises the error of the last one.
C39_InitializeTerminates ==
    /\ [](/\ Len(applied.outcomes) <= applied.max_retries
          /\ applied.pc = "create_pool"
                => /\ FailedAttempts = DOMAIN applied.outcomes
                   /\ applied.sleeps = Len(applied.outcomes)
          /\ applied.pc = "sleep"
                => /\ FailedAttempts = DOMAIN applied.outcomes
                   /\ Len(applied.outcomes) < applied.max_retries
                   /\ applied.sleeps = Len(applied.outcomes) - 1
          /\ (applied.pc = "returned" /\ applied.max_retries > 0)
                => /\ applied.outcomes[Len(applied.outcomes)] = "ok"
                   /\ FailedAttempts = 1..(Len(applied.outcomes) - 1)
                   /\ applied.sleeps = Len(applied.outcomes) - 1
                   /\ applied.pool = Len(applied.outcomes)
                   /\ applied.raised = 0
          /\ applied.pc = "raised"
                => /\ Len(applied.outcomes) = applied.max_retries
                   /\ FailedAttempts = DOMAIN applied.outcomes
                   /\ applied.sleeps = applied.max_retries - 1
                   /\ applied.raised = applied.max_retries)
    /\ [][applied.pc \in {"returned", "raised"} => applied' = applied]_vars
    /\ <>(applied.pc \in {"returned", "raised"})

\* the call with the default max_retries = 3 failed twice and slept twice,
\* then its third attempt succeeded and it returned
C39_Witness ==
    /\ applied.op = "initialize"
    /\ applied.max_retries = 3
    /\ applied.pc = "returned"
    /\ applied.outcomes = <<"create_pool", "fetchval", "ok">>
    /\ applied.sleeps = 2

====
